---- MODULE Spec2Model ----
(***************************************************************************)
(* A model of the reward-shaping core of acegen-open:                      *)
(*   - SMILESVocabulary (src/acegen/vocabulary/vocabulary.py)              *)
(*   - the SMILESReward transform (src/examples/ppo/utils.py and           *)
(*     src/acegen/transforms/reward_transform.py)                          *)
(* Python strings are modelled as sequences of one-character strings,      *)
(* Python dicts as insertion-ordered sequences of [k, v] pairs, numpy      *)
(* index arrays as sequences of integers.                                  *)
(***************************************************************************)
EXTENDS Integers, Sequences, FiniteSets, TLC

VARIABLES voc, op, td, rt, calls, ret, archive, repeated_smiles, buffer, rnn, loop

vars == <<voc, op, td, rt, calls, ret, archive, repeated_smiles, buffer, rnn, loop>>

vocabVars == <<voc, op>>

rewardVars == <<td, rt, calls, ret>>

\* the archive of seen sequences with its counter of repeats, and the
\* experience buffer
trainerVars == <<archive, repeated_smiles, buffer>>

\* the sampling loop of RNN.forward and the training loop of impala_multi_node.py
loopVars == <<rnn, loop>>

(***************************************************************************)
(* Bounds of the model                                                     *)
(***************************************************************************)
\* longest text given to encode and to the corpus constructor
MaxText == 2

\* longest index array given to decode
MaxSeq == 3

\* longest list given to add_characters
MaxChars == 2

\* steps of a trajectory batch
MaxSteps == 2

\* rows of a tensordict handed to a row filter
MaxRows == 3

\* capacity of the experience buffer (100 in ppo_kl_loss.py, scaled down)
BufferCapacity == 2

\* entries offered to the experience buffer in a run
MaxOffered == 4

\* repeats counted before the run of the repetition filter is cut off
MaxRepeats == 2

(***************************************************************************)
(* Python values                                                           *)
(***************************************************************************)
None == "None"

Ok(x) == [err |-> "none", val |-> x]

Raise(e, x) == [err |-> e, val |-> x]

RECURSIVE SeqsUpTo(_, _)
\* all sequences over S of length 0..n
SeqsUpTo(S, n) ==
  IF n = 0 THEN {<<>>}
  ELSE LET shorter == SeqsUpTo(S, n - 1)
       IN shorter \cup {Append(s, x) : s \in {t \in shorter : Len(t) = n - 1}, x \in S}

Range(s) == {s[i] : i \in 1..Len(s)}

\* ---- dict: an insertion-ordered sequence of [k, v] with distinct keys ----
Keys(d) == [i \in 1..Len(d) |-> d[i].k]

Has(d, key) == \E i \in 1..Len(d) : d[i].k = key

Get(d, key) == d[CHOOSE i \in 1..Len(d) : d[i].k = key].v

\* d[key] = value: an existing key keeps its position and takes the new value
Put(d, key, value) ==
  IF Has(d, key)
  THEN [i \in 1..Len(d) |-> IF d[i].k = key THEN [k |-> key, v |-> value] ELSE d[i]]
  ELSE Append(d, [k |-> key, v |-> value])

RECURSIVE ZipFrom(_, _, _, _)
ZipFrom(ks, vs, i, acc) ==
  IF i > Len(ks) \/ i > Len(vs) THEN acc
  ELSE ZipFrom(ks, vs, i + 1, Put(acc, ks[i], vs[i]))

\* dict(zip(ks, vs))
DictZip(ks, vs) == ZipFrom(ks, vs, 1, <<>>)

RECURSIVE InvertFrom(_, _, _)
InvertFrom(d, i, acc) ==
  IF i > Len(d) THEN acc
  ELSE InvertFrom(d, i + 1, Put(acc, d[i].v, d[i].k))

\* {v: k for k, v in d.items()}
Invert(d) == InvertFrom(d, 1, <<>>)

\* ---- str order: Python compares strings by code point ----
\* 'C' = 67, 'E' = 69, 'G' = 71, 'L' = 76, 'R' = 82, '^' = 94, 'l' = 108
CodePointOrder == <<"C", "EOS", "GO", "L", "R", "^", "l">>

Rank(t) == CHOOSE i \in 1..Len(CodePointOrder) : CodePointOrder[i] = t

RECURSIVE SortSet(_)
\* list(S); .sort()
SortSet(S) ==
  IF S = {} THEN <<>>
  ELSE LET m == CHOOSE x \in S : \A y \in S : Rank(x) <= Rank(y)
       IN <<m>> \o SortSet(S \ {m})

\* the characters of a token
CharsOf(t) ==
  CASE t = "EOS" -> <<"E", "O", "S">>
    [] t = "GO" -> <<"G", "O">>
    [] OTHER -> <<t>>

RECURSIVE Join(_)
\* "".join(tokens)
Join(tokens) ==
  IF tokens = <<>> THEN <<>> ELSE CharsOf(Head(tokens)) \o Join(Tail(tokens))

RECURSIVE Replace(_, _, _)
\* s.replace(c, w) for a one-character c
Replace(s, c, w) ==
  IF s = <<>> THEN <<>>
  ELSE (IF Head(s) = c THEN w ELSE <<Head(s)>>) \o Replace(Tail(s), c, w)

(***************************************************************************)
(* Tokenizer (acegen.vocabulary.base.Tokenizer): one token per character,  *)
(* the two-letter halogens written as their one-letter placeholders.       *)
(***************************************************************************)
SMILESTokenizer == "SMILESTokenizer"

RECURSIVE tokenize(_)
tokenize(smiles) ==
  IF smiles = <<>> THEN <<>>
  ELSE IF Len(smiles) >= 2 /\ smiles[1] = "C" /\ smiles[2] = "l"
       THEN <<"L">> \o tokenize(SubSeq(smiles, 3, Len(smiles)))
  ELSE IF Len(smiles) >= 2 /\ smiles[1] = "B" /\ smiles[2] = "r"
       THEN <<"R">> \o tokenize(SubSeq(smiles, 3, Len(smiles)))
  ELSE <<smiles[1]>> \o tokenize(Tail(smiles))

(***************************************************************************)
(* SMILESVocabulary                                                        *)
(***************************************************************************)
\* __init__
SMILESVocabulary(start_token, start_token_index, end_token, end_token_index, max_length, tokenizer) ==
  LET special_tokens == <<end_token, start_token>>
      special_indices == <<end_token_index, start_token_index>>
      chars == special_tokens
      vocab == DictZip(chars, special_indices)
  IN [start_token |-> start_token,
      end_token |-> end_token,
      special_tokens |-> special_tokens,
      additional_chars |-> {},
      chars |-> chars,
      vocab_size |-> Len(chars),
      vocab |-> vocab,
      reversed_vocab |-> Invert(vocab),
      max_length |-> max_length,
      tokenizer |-> tokenizer]

\* the defaults of __init__'s parameters
DefaultVocabulary == SMILESVocabulary("GO", 0, "EOS", 1, 140, None)

RECURSIVE encode_loop(_, _, _, _)
\* for i, char in enumerate(char_list): smiles_matrix[i] = self.vocab[char]
encode_loop(self, char_list, i, smiles_matrix) ==
  IF i > Len(char_list) THEN Ok(smiles_matrix)
  ELSE IF ~Has(self.vocab, char_list[i]) THEN Raise("KeyError", char_list[i])
  ELSE encode_loop(self, char_list, i + 1,
                   Append(smiles_matrix, Get(self.vocab, char_list[i])))

RECURSIVE encode_loop_partial(_, _, _, _)
\* variant: a token that is not in the vocabulary ends the loop with what was encoded
encode_loop_partial(self, char_list, i, smiles_matrix) ==
  IF i > Len(char_list) THEN Ok(smiles_matrix)
  ELSE IF ~Has(self.vocab, char_list[i]) THEN Ok(smiles_matrix)
  ELSE encode_loop_partial(self, char_list, i + 1,
                           Append(smiles_matrix, Get(self.vocab, char_list[i])))

encode_partial(self, smiles) ==
  IF self.tokenizer = None THEN Raise("RuntimeError", None)
  ELSE encode_loop_partial(self, tokenize(smiles), 1, <<>>)

encode(self, smiles) ==
  IF self.tokenizer = None THEN Raise("RuntimeError", None)
  ELSE encode_loop(self, tokenize(smiles), 1, <<>>)

RECURSIVE decode_loop(_, _, _, _, _)
\* for i in encoded_smiles: ... chars.append(self.reversed_vocab[i])
decode_loop(self, encoded_smiles, ignore_indices, n, chars) ==
  IF n > Len(encoded_smiles) THEN Ok(chars)
  ELSE LET i == encoded_smiles[n]
       IN IF i \in ignore_indices
          THEN decode_loop(self, encoded_smiles, ignore_indices, n + 1, chars)
          ELSE IF ~Has(self.vocab, self.start_token) THEN Raise("KeyError", self.start_token)
          ELSE IF i = Get(self.vocab, self.start_token)
          THEN decode_loop(self, encoded_smiles, ignore_indices, n + 1, chars)
          ELSE IF ~Has(self.vocab, self.end_token) THEN Raise("KeyError", self.end_token)
          ELSE IF i = Get(self.vocab, self.end_token) THEN Ok(chars)
          ELSE IF ~Has(self.reversed_vocab, i) THEN Raise("KeyError", i)
          ELSE decode_loop(self, encoded_smiles, ignore_indices, n + 1,
                           Append(chars, Get(self.reversed_vocab, i)))

\* smiles.replace("L", "Cl").replace("R", "Br")
canonicalize(smiles) == Replace(Replace(smiles, "L", <<"C", "l">>), "R", <<"B", "r">>)

RECURSIVE decode_loop_variant(_, _, _, _, _, _, _)
\* variants of the loop: what an ignored index and the end token do
decode_loop_variant(self, encoded_smiles, ignore_indices, n, chars, onIgnored, onEnd) ==
  IF n > Len(encoded_smiles) THEN Ok(chars)
  ELSE LET i == encoded_smiles[n]
           go(cs) == decode_loop_variant(self, encoded_smiles, ignore_indices, n + 1, cs,
                                         onIgnored, onEnd)
       IN IF i \in ignore_indices
          THEN (IF onIgnored = "continue" THEN go(chars) ELSE Ok(chars))
          ELSE IF i = Get(self.vocab, self.start_token) THEN go(chars)
          ELSE IF i = Get(self.vocab, self.end_token)
          THEN (IF onEnd = "continue" THEN go(chars) ELSE Ok(chars))
          ELSE IF ~Has(self.reversed_vocab, i) THEN Raise("KeyError", i)
          ELSE go(Append(chars, Get(self.reversed_vocab, i)))

\* variant: the end token is skipped like the start token
decode_skips_end(self, encoded_smiles, ignore_indices) ==
  LET r == decode_loop_variant(self, encoded_smiles, ignore_indices, 1, <<>>,
                               "continue", "continue")
  IN IF r.err # "none" THEN r ELSE Ok(canonicalize(Join(r.val)))

\* variant: an ignored index ends the loop
decode_stops_at_ignored(self, encoded_smiles, ignore_indices) ==
  LET r == decode_loop_variant(self, encoded_smiles, ignore_indices, 1, <<>>,
                               "break", "break")
  IN IF r.err # "none" THEN r ELSE Ok(canonicalize(Join(r.val)))

\* variant: the placeholders are left as they are
decode_raw(self, encoded_smiles, ignore_indices) ==
  LET r == decode_loop(self, encoded_smiles, ignore_indices, 1, <<>>)
  IN IF r.err # "none" THEN r ELSE Ok(Join(r.val))

decode(self, encoded_smiles, ignore_indices) ==
  LET r == decode_loop(self, encoded_smiles, ignore_indices, 1, <<>>)
  IN IF r.err # "none" THEN r ELSE Ok(canonicalize(Join(r.val)))

\* variant: every given character is added, also one the vocabulary already holds
add_characters_unchecked(self, chars) ==
  LET additional_chars == self.additional_chars \cup Range(chars)
      char_list == SortSet(additional_chars)
      new_chars == char_list \o self.special_tokens
      vocab == DictZip(new_chars, [i \in 1..Len(new_chars) |-> i - 1])
  IN [self EXCEPT !.additional_chars = additional_chars,
                  !.chars = new_chars,
                  !.vocab_size = Len(new_chars),
                  !.vocab = vocab,
                  !.reversed_vocab = Invert(vocab)]

add_characters(self, chars) ==
  LET additional_chars ==
        self.additional_chars \cup {c \in Range(chars) : c \notin Range(self.chars)}
      char_list == SortSet(additional_chars)
      new_chars == char_list \o self.special_tokens
      vocab == DictZip(new_chars, [i \in 1..Len(new_chars) |-> i - 1])
  IN [self EXCEPT !.additional_chars = additional_chars,
                  !.chars = new_chars,
                  !.vocab_size = Len(new_chars),
                  !.vocab = vocab,
                  !.reversed_vocab = Invert(vocab)]

\* __len__
len(self) == Len(self.chars)

RECURSIVE corpus_tokens(_)
\* tokens = set(); for smi in smiles_list: tokens.update(tokenize(smi))
corpus_tokens(smiles_list) ==
  IF smiles_list = <<>> THEN {}
  ELSE Range(tokenize(Head(smiles_list))) \cup corpus_tokens(Tail(smiles_list))

create_from_smiles(smiles_list, tokenizer, start_token, start_token_index, end_token, end_token_index, max_length) ==
  LET tokens == corpus_tokens(smiles_list)
      vocabulary == DefaultVocabulary
  IN add_characters(vocabulary, SortSet(tokens))

\* variant: reversed_vocab is left as __init__ built it
create_from_dict_stale(vocab, start_token, end_token, max_length, tokenizer) ==
  LET vocabulary == SMILESVocabulary(start_token, 0, end_token, 1, max_length, tokenizer)
      chars == Keys(vocab)
      special_tokens == <<end_token, start_token>>
  IN [vocabulary EXCEPT !.vocab_size = Len(vocab),
                        !.vocab = vocab,
                        !.chars = chars,
                        !.special_tokens = special_tokens,
                        !.additional_chars =
                            {c \in Range(chars) : c \notin Range(special_tokens)}]

create_from_dict(vocab, start_token, end_token, max_length, tokenizer) ==
  LET vocabulary == SMILESVocabulary(start_token, 0, end_token, 1, max_length, tokenizer)
      chars == Keys(vocab)
      special_tokens == <<end_token, start_token>>
  IN [vocabulary EXCEPT !.vocab_size = Len(vocab),
                        !.vocab = vocab,
                        !.reversed_vocab = Invert(vocab),
                        !.chars = chars,
                        !.special_tokens = special_tokens,
                        !.additional_chars =
                            {c \in Range(chars) : c \notin Range(special_tokens)}]

(***************************************************************************)
(* Inputs of the vocabulary's operations                                   *)
(***************************************************************************)
\* characters of the texts given to encode and to the corpus constructor
TextChars == {"C", "l", "R"}

Texts == SeqsUpTo(TextChars, MaxText)

\* tokens given to add_characters: ordinary ones and the reserved literals
CharArgs == {"C", "R", "EOS"}

StartTokens == {"GO", "^"}

EndTokens == {"EOS"}

TokenIndices == {0, 1}

MaxLengths == {2, 140}

Tokenizers == {None, SMILESTokenizer}

\* entries of the index arrays given to decode; -1 is the padding sentinel
IndexValues == {-1, 0, 1, 2}

IgnoreChoices == {{}, {-1}, {-1, 2}}

\* the ordered dicts given to create_from_dict: as its docstring requires, they
\* map characters to indices (one index per character) and include the start
\* and the end token
DictArgs(start_token, end_token) ==
  LET keyLists == {SortSet(S) \o tl : S \in SUBSET {"C", "L"},
                   tl \in {<<end_token, start_token>>, <<start_token, end_token>>}}
      ascending(ks) == [i \in 1..Len(ks) |-> [k |-> ks[i], v |-> i - 1]]
      descending(ks) == [i \in 1..Len(ks) |-> [k |-> ks[i], v |-> Len(ks) - i]]
      spaced(ks) == [i \in 1..Len(ks) |-> [k |-> ks[i], v |-> 2 * i - 1]]
  IN {ascending(ks) : ks \in keyLists} \cup {descending(ks) : ks \in keyLists}
       \cup {spaced(ks) : ks \in keyLists}

(***************************************************************************)
(* The vocabulary as a state machine: voc is the vocabulary object, op the *)
(* last call made on the class or the object with its arguments and result *)
(***************************************************************************)
NotCalled == [called |-> FALSE, err |-> "none", attempts |-> 0]

\* the calls a transform made: the argument of each call of the reward function,
\* what each of these calls did, and the sequences handed to the decoder
NoCalls == [reward_function |-> <<>>, raised |-> <<>>, decode |-> <<>>]

\* no archive and no experience buffer
IdleTrainer ==
  [archive |-> <<>>, repeated_smiles |-> 0,
   buffer |-> [capacity |-> 0, entries |-> <<>>, offered |-> <<>>]]

\* no sampling and no training loop
IdleLoops == [rnn |-> [pc |-> "idle"], loop |-> [pc |-> "idle"]]

\* no batch and no transform
IdleReward == [td |-> <<>>, rt |-> None, calls |-> NoCalls, ret |-> NotCalled]

Construct(start_token, start_token_index, end_token, end_token_index, max_length, tokenizer) ==
  /\ voc' = SMILESVocabulary(start_token, start_token_index, end_token,
                             end_token_index, max_length, tokenizer)
  /\ op' = [name |-> "__init__",
            in |-> [start_token |-> start_token, start_token_index |-> start_token_index,
                    end_token |-> end_token, end_token_index |-> end_token_index,
                    max_length |-> max_length, tokenizer |-> tokenizer],
            out |-> None]
  /\ UNCHANGED <<rewardVars, trainerVars, loopVars>>

AddCharacters(chars) ==
  /\ voc' = add_characters(voc, chars)
  /\ op' = [name |-> "add_characters", in |-> chars, out |-> None]
  /\ UNCHANGED <<rewardVars, trainerVars, loopVars>>

CreateFromSmiles(smiles_list, tokenizer, start_token, start_token_index, end_token, end_token_index, max_length) ==
  /\ voc' = create_from_smiles(smiles_list, tokenizer, start_token, start_token_index,
                               end_token, end_token_index, max_length)
  /\ op' = [name |-> "create_from_smiles",
            in |-> [smiles_list |-> smiles_list, tokenizer |-> tokenizer,
                    start_token |-> start_token, start_token_index |-> start_token_index,
                    end_token |-> end_token, end_token_index |-> end_token_index,
                    max_length |-> max_length],
            out |-> None]
  /\ UNCHANGED <<rewardVars, trainerVars, loopVars>>

CreateFromDict(vocab, start_token, end_token, max_length, tokenizer) ==
  /\ voc' = create_from_dict(vocab, start_token, end_token, max_length, tokenizer)
  /\ op' = [name |-> "create_from_dict",
            in |-> [vocab |-> vocab, start_token |-> start_token, end_token |-> end_token,
                    max_length |-> max_length, tokenizer |-> tokenizer],
            out |-> None]
  /\ UNCHANGED <<rewardVars, trainerVars, loopVars>>

VocabInit ==
  /\ \E sti \in TokenIndices, eti \in TokenIndices, ml \in MaxLengths, tk \in Tokenizers :
       /\ voc = SMILESVocabulary("GO", sti, "EOS", eti, ml, tk)
       /\ op = [name |-> "__init__",
                in |-> [start_token |-> "GO", start_token_index |-> sti,
                        end_token |-> "EOS", end_token_index |-> eti,
                        max_length |-> ml, tokenizer |-> tk],
                out |-> None]
  /\ td = IdleReward.td
  /\ rt = IdleReward.rt
  /\ calls = IdleReward.calls
  /\ ret = IdleReward.ret
  /\ archive = IdleTrainer.archive
  /\ repeated_smiles = IdleTrainer.repeated_smiles
  /\ buffer = IdleTrainer.buffer
  /\ rnn = IdleLoops.rnn
  /\ loop = IdleLoops.loop

VocabNext ==
  \/ \E sti \in TokenIndices, eti \in TokenIndices, ml \in MaxLengths, tk \in Tokenizers :
       Construct("GO", sti, "EOS", eti, ml, tk)
  \/ \E chars \in SeqsUpTo(CharArgs, MaxChars) : AddCharacters(chars)
  \/ \E smiles_list \in SeqsUpTo(Texts, 1), st \in StartTokens, et \in EndTokens,
        ml \in MaxLengths :
       CreateFromSmiles(smiles_list, SMILESTokenizer, st, 0, et, 1, ml)
  \/ \E st \in StartTokens, et \in EndTokens, tk \in Tokenizers :
       \E vocab \in DictArgs(st, et) : CreateFromDict(vocab, st, et, 140, tk)

\* construction and growth of a vocabulary
VocabSpec == VocabInit /\ [][VocabNext]_vars

(***************************************************************************)
(* encode and decode are pure: they are applied once to a vocabulary built *)
(* by the constructors and add_characters, on inputs from bounded sets     *)
(***************************************************************************)
NoCall == [name |-> "none", in |-> None, out |-> None]

Constructed ==
  {SMILESVocabulary("GO", sti, "EOS", eti, ml, tk) :
     sti \in TokenIndices, eti \in TokenIndices, ml \in MaxLengths, tk \in Tokenizers}
  \cup {create_from_smiles(sl, SMILESTokenizer, "GO", 0, "EOS", 1, 140) :
          sl \in SeqsUpTo(Texts, 1)}
  \cup UNION {{create_from_dict(d, st, et, 140, tk) : d \in DictArgs(st, et)} :
                st \in StartTokens, et \in EndTokens, tk \in Tokenizers}

\* the vocabularies VocabSpec reaches
Vocabularies ==
  Constructed \cup {add_characters(v, SortSet(S)) : v \in Constructed, S \in SUBSET CharArgs}

Encode(smiles) ==
  /\ op.name = "none"
  /\ op' = [name |-> "encode", in |-> smiles, out |-> encode(voc, smiles)]
  /\ UNCHANGED <<voc, rewardVars, trainerVars, loopVars>>

Decode(encoded_smiles, ignore_indices) ==
  /\ op.name = "none"
  /\ op' = [name |-> "decode",
            in |-> [encoded_smiles |-> encoded_smiles, ignore_indices |-> ignore_indices],
            out |-> decode(voc, encoded_smiles, ignore_indices)]
  /\ UNCHANGED <<voc, rewardVars, trainerVars, loopVars>>

CodecInit ==
  /\ voc \in Vocabularies
  /\ op = NoCall
  /\ td = IdleReward.td
  /\ rt = IdleReward.rt
  /\ calls = IdleReward.calls
  /\ ret = IdleReward.ret
  /\ archive = IdleTrainer.archive
  /\ repeated_smiles = IdleTrainer.repeated_smiles
  /\ buffer = IdleTrainer.buffer
  /\ rnn = IdleLoops.rnn
  /\ loop = IdleLoops.loop

CodecNext ==
  \/ \E smiles \in Texts : Encode(smiles)
  \/ \E encoded_smiles \in SeqsUpTo(IndexValues, MaxSeq), ignore_indices \in IgnoreChoices :
       Decode(encoded_smiles, ignore_indices)

CodecSpec == CodecInit /\ [][CodecNext]_vars

\* every vocabulary VocabSpec reaches is one CodecSpec starts from
ReachableVocabularies == voc \in Vocabularies

(***************************************************************************)
(* SMILESReward: the transform that scores the terminal steps of a batch.  *)
(* td is the tensordict (its batch dimensions flattened, in scan order),   *)
(* rt the transform object, calls the log of the calls it makes to the     *)
(* decoder and to the reward function, ret how its call ended.             *)
(***************************************************************************)
\* max_attempts = 3
max_attempts == 3

\* def dummy_reward_function(smiles): return [1 for _ in smiles]
dummy_reward_function(smiles_list) == [i \in 1..Len(smiles_list) |-> 1]

\* a reward function that tells the texts apart: the length of each text
length_reward_function(smiles_list) == [i \in 1..Len(smiles_list) |-> Len(smiles_list[i])]

apply_reward_function(f, smiles_list) ==
  IF f = "dummy_reward_function" THEN dummy_reward_function(smiles_list)
  ELSE length_reward_function(smiles_list)

\* the positions of a boolean mask that are set, in order
MaskIndices(mask) ==
  LET set(i) == mask[i]
  IN SelectSeq([i \in 1..Len(mask) |-> i], set)

\* sub_tensordict.get(key): the rows of the field under the mask
SubGet(next, idx, key) == [j \in 1..Len(idx) |-> next[key][idx[j]]]

\* variant: the value is written to the first rows of the field, not to the
\* rows under the mask
SubSet_unmasked(next, idx, key, value) ==
  [next EXCEPT ![key] =
     [i \in 1..Len(next[key]) |-> IF i <= Len(value) THEN value[i] ELSE next[key][i]]]

\* sub_tensordict.set(key, value, inplace=True)
SubSet(next, idx, key, value) ==
  [next EXCEPT ![key] =
     [i \in 1..Len(next[key]) |->
        IF \E j \in 1..Len(idx) : idx[j] = i
        THEN value[CHOOSE j \in 1..Len(idx) : idx[j] = i]
        ELSE next[key][i]]]

RECURSIVE decode_all_skip(_, _, _, _)
\* variant: a sequence that does not decode is given the empty text
decode_all_skip(vocabulary, smiles, n, smiles_list) ==
  IF n > Len(smiles) THEN [err |-> "none", val |-> smiles_list, decoded |-> smiles]
  ELSE LET r == decode(vocabulary, smiles[n], {-1})
       IN decode_all_skip(vocabulary, smiles, n + 1,
                          Append(smiles_list, IF r.err # "none" THEN <<>> ELSE r.val))

RECURSIVE decode_all(_, _, _, _)
\* for smi in smiles: smiles_list.append(self.vocabulary.decode(smi, ignore_indices=[-1]))
decode_all(vocabulary, smiles, n, smiles_list) ==
  IF n > Len(smiles) THEN [err |-> "none", val |-> smiles_list, decoded |-> smiles]
  ELSE LET r == decode(vocabulary, smiles[n], {-1})
       IN IF r.err # "none"
          THEN [err |-> r.err, val |-> r.val, decoded |-> SubSeq(smiles, 1, n)]
          ELSE decode_all(vocabulary, smiles, n + 1, Append(smiles_list, r.val))

\* variant: a RuntimeError of the reward function is raised at once, no retry
retry_loop_once(i, outcomes, reward, scores, smiles_list) ==
  IF outcomes[1] = "ok"
  THEN [err |-> "none",
        reward |-> [j \in 1..Len(reward) |-> reward[j] + scores[j]],
        attempts |-> 1]
  ELSE [err |-> outcomes[1], reward |-> reward, attempts |-> 1]

RECURSIVE retry_loop_overwrite(_, _, _, _, _)
\* variant: reward = _reward in place of reward += _reward
retry_loop_overwrite(i, outcomes, reward, scores, smiles_list) ==
  IF i >= max_attempts THEN [err |-> "none", reward |-> reward, attempts |-> i]
  ELSE IF outcomes[i + 1] = "ok"
       THEN [err |-> "none", reward |-> scores, attempts |-> i + 1]
  ELSE IF outcomes[i + 1] = "RuntimeError"
       THEN (IF i = max_attempts - 1
             THEN [err |-> "RuntimeError", reward |-> reward, attempts |-> i + 1]
             ELSE retry_loop_overwrite(i + 1, outcomes, reward, scores, smiles_list))
  ELSE [err |-> outcomes[i + 1], reward |-> reward, attempts |-> i + 1]

RECURSIVE retry_loop(_, _, _, _, _)
\* for i in range(max_attempts): try: reward += reward_function(smiles_list); break
\* except RuntimeError: raise at the last attempt, warn and continue before it
retry_loop(i, outcomes, reward, scores, smiles_list) ==
  IF i >= max_attempts THEN [err |-> "none", reward |-> reward, attempts |-> i]
  ELSE IF outcomes[i + 1] = "ok"
       THEN [err |-> "none",
             reward |-> [j \in 1..Len(reward) |-> reward[j] + scores[j]],
             attempts |-> i + 1]
  ELSE IF outcomes[i + 1] = "RuntimeError"
       THEN (IF i = max_attempts - 1
             THEN [err |-> "RuntimeError", reward |-> reward, attempts |-> i + 1]
             ELSE retry_loop(i + 1, outcomes, reward, scores, smiles_list))
  ELSE [err |-> outcomes[i + 1], reward |-> reward, attempts |-> i + 1]

Returned(next, decoded, smiles_list, attempts, err) ==
  [next |-> next,
   calls |-> [reward_function |-> [a \in 1..attempts |-> smiles_list], decode |-> decoded],
   ret |-> [called |-> TRUE, err |-> err, attempts |-> attempts]]

\* variant: no early return for a batch without terminal steps
SMILESReward_call_always_scores(self, next, outcomes) ==
  LET idx == MaskIndices(next["done"])
      reward == SubGet(next, idx, self.out_keys[1])
      smiles == SubGet(next, idx, self.in_keys[1])
      dec == decode_all(self.vocabulary, smiles, 1, <<>>)
  IN IF dec.err # "none" THEN Returned(next, dec.decoded, <<>>, 0, dec.err)
     ELSE LET scores == apply_reward_function(self.reward_function, dec.val)
              r == retry_loop(0, outcomes, reward, scores, dec.val)
          IN IF r.err # "none"
             THEN Returned(next, dec.decoded, dec.val, r.attempts, r.err)
             ELSE Returned(SubSet(next, idx, self.out_keys[1],
                                  [j \in 1..Len(idx) |-> r.reward[j] * self.reward_scale]),
                           dec.decoded, dec.val, r.attempts, "none")

\* variant: the reward function is called once for each decoded text
SMILESReward_call_per_text(self, next, outcomes) ==
  LET idx == MaskIndices(next["done"])
  IN IF Len(idx) = 0 THEN Returned(next, <<>>, <<>>, 0, "none")
     ELSE LET reward == SubGet(next, idx, self.out_keys[1])
              smiles == SubGet(next, idx, self.in_keys[1])
              dec == decode_all(self.vocabulary, smiles, 1, <<>>)
          IN IF dec.err # "none" THEN Returned(next, dec.decoded, <<>>, 0, dec.err)
             ELSE IF outcomes[1] # "ok"
             THEN Returned(next, dec.decoded, dec.val, 1, outcomes[1])
             ELSE LET scores == apply_reward_function(self.reward_function, dec.val)
                  IN [next |-> SubSet(next, idx, self.out_keys[1],
                                      [j \in 1..Len(idx) |->
                                         (reward[j] + scores[j]) * self.reward_scale]),
                      calls |-> [reward_function |-> [j \in 1..Len(idx) |-> <<dec.val[j]>>],
                                 decode |-> dec.decoded],
                      ret |-> [called |-> TRUE, err |-> "none", attempts |-> 1]]

\* variant: the scaled reward is written back also when the loop raised
SMILESReward_call_writes_on_failure(self, next, outcomes) ==
  LET idx == MaskIndices(next["done"])
  IN IF Len(idx) = 0 THEN Returned(next, <<>>, <<>>, 0, "none")
     ELSE IF self.out_keys[1] \notin DOMAIN next \/ self.in_keys[1] \notin DOMAIN next
     THEN Returned(next, <<>>, <<>>, 0, "KeyError")
     ELSE LET reward == SubGet(next, idx, self.out_keys[1])
              smiles == SubGet(next, idx, self.in_keys[1])
              dec == decode_all(self.vocabulary, smiles, 1, <<>>)
          IN IF dec.err # "none" THEN Returned(next, dec.decoded, <<>>, 0, dec.err)
             ELSE LET scores == apply_reward_function(self.reward_function, dec.val)
                      r == retry_loop(0, outcomes, reward, scores, dec.val)
                  IN Returned(SubSet(next, idx, self.out_keys[1],
                                     [j \in 1..Len(idx) |-> r.reward[j] * self.reward_scale]),
                              dec.decoded, dec.val, r.attempts, r.err)

\* SMILESReward._call of examples/ppo/utils.py on the "next" record; outcomes
\* are what the reward function does at its first, second and third call
SMILESReward_call(self, next, outcomes) ==
  LET done == next["done"]
      idx == MaskIndices(done)
  IN IF Len(idx) = 0 THEN Returned(next, <<>>, <<>>, 0, "none")
     ELSE IF self.out_keys[1] \notin DOMAIN next \/ self.in_keys[1] \notin DOMAIN next
     THEN Returned(next, <<>>, <<>>, 0, "KeyError")
     ELSE LET reward == SubGet(next, idx, self.out_keys[1])
              smiles == SubGet(next, idx, self.in_keys[1])
              dec == decode_all(self.vocabulary, smiles, 1, <<>>)
          IN IF dec.err # "none" THEN Returned(next, dec.decoded, <<>>, 0, dec.err)
             ELSE LET scores == apply_reward_function(self.reward_function, dec.val)
                      r == retry_loop(0, outcomes, reward, scores, dec.val)
                  IN IF r.err # "none"
                     THEN Returned(next, dec.decoded, dec.val, r.attempts, r.err)
                     ELSE Returned(SubSet(next, idx, self.out_keys[1],
                                          [j \in 1..Len(idx) |->
                                             r.reward[j] * self.reward_scale]),
                                   dec.decoded, dec.val, r.attempts, "none")

\* SMILESReward.forward of acegen/transforms/reward_transform.py: the terminated
\* flag, the "reward" field, one call of the reward function
SMILESReward_forward(self, next, outcomes) ==
  LET terminated == next["terminated"]
      idx == MaskIndices(terminated)
  IN IF Len(idx) = 0 THEN Returned(next, <<>>, <<>>, 0, "none")
     ELSE IF "reward" \notin DOMAIN next \/ self.in_keys[1] \notin DOMAIN next
     THEN Returned(next, <<>>, <<>>, 0, "KeyError")
     ELSE LET reward == SubGet(next, idx, "reward")
              smiles == SubGet(next, idx, self.in_keys[1])
              dec == decode_all(self.vocabulary, smiles, 1, <<>>)
          IN IF dec.err # "none" THEN Returned(next, dec.decoded, <<>>, 0, dec.err)
             ELSE IF outcomes[1] # "ok" THEN Returned(next, dec.decoded, dec.val, 1, outcomes[1])
             ELSE LET scores == apply_reward_function(self.reward_function, dec.val)
                  IN Returned(SubSet(next, idx, "reward",
                                     [j \in 1..Len(idx) |-> reward[j] + scores[j]]),
                              dec.decoded, dec.val, 1, "none")

\* the vocabulary of the transform: SMILESVocabulary() and add_characters(chars)
TransformVocabulary == add_characters(DefaultVocabulary, <<"C", "L">>)

\* encoded sequences of a step: GO C EOS; L C and padding; C and an index that
\* is not in the vocabulary
SmilesChoices == {<<3, 0, 2>>, <<1, 0, -1>>, <<0, 7, 2>>}

PriorRewards == {0, 1}

RewardKeys == {"reward", "reward2"}

RewardScales == {1, 2}

RewardFunctions == {"dummy_reward_function", "length_reward_function"}

\* what a call of the reward function does: it returns the scores, raises the
\* transient RuntimeError, or raises another error
Outcomes == {"ok", "RuntimeError", "ValueError"}

\* the outcomes of the three calls that can differ in what the transform does:
\* a call is made only after a RuntimeError of the call before it
OutcomePlans ==
  {outcomes \in [1..max_attempts -> Outcomes] :
     \A a \in 1..(max_attempts - 1) : outcomes[a] # "RuntimeError" => outcomes[a + 1] = "ok"}

\* a batch as generate_valid_data_batch and smiles_to_tensordict lay it out; done
\* and terminated are the same flags
Batches(reward_key) ==
  {[observation |-> [i \in 1..MaxSteps |-> 0],
    next |-> [k \in {"observation", "done", "terminated", "SMILES", reward_key} |->
                CASE k = "observation" -> [i \in 1..MaxSteps |-> 0]
                  [] k = "done" -> flags
                  [] k = "terminated" -> flags
                  [] k = "SMILES" -> smiles
                  [] OTHER -> reward]] :
     flags \in [1..MaxSteps -> BOOLEAN], smiles \in [1..MaxSteps -> SmilesChoices],
     reward \in [1..MaxSteps -> PriorRewards]}

\* batch.set(("next", key), value): the batch with one more field in "next"
SetNext(batch, key, value) ==
  [batch EXCEPT !.next = [k \in DOMAIN batch.next \cup {key} |->
                            IF k = key THEN value ELSE batch.next[k]]]

\* the reward field a transform built with out_keys = [key] is not given
OtherKey(key) == IF key = "reward" THEN "reward2" ELSE "reward"

\* forward of examples/ppo/utils.py: self._call(tensordict.get("next"))
Forward(outcomes) ==
  /\ ~ret.called
  /\ rt.class = "utils"
  /\ LET r == SMILESReward_call(rt, td.next, outcomes)
     IN /\ td' = [td EXCEPT !.next = r.next]
        /\ calls' = [reward_function |-> r.calls.reward_function,
                     raised |-> SubSeq(outcomes, 1, r.ret.attempts),
                     decode |-> r.calls.decode]
        /\ ret' = r.ret
  /\ UNCHANGED <<rt, vocabVars, trainerVars, loopVars>>

\* forward of acegen/transforms/reward_transform.py
ForwardTransform(outcomes) ==
  /\ ~ret.called
  /\ rt.class = "transforms"
  /\ LET r == SMILESReward_forward(rt, td.next, outcomes)
     IN /\ td' = [td EXCEPT !.next = r.next]
        /\ calls' = [reward_function |-> r.calls.reward_function,
                     raised |-> SubSeq(outcomes, 1, r.ret.attempts),
                     decode |-> r.calls.decode]
        /\ ret' = r.ret
  /\ UNCHANGED <<rt, vocabVars, trainerVars, loopVars>>

RewardInit ==
  /\ voc = TransformVocabulary
  /\ op = NoCall
  /\ \E class \in {"utils", "transforms"}, f \in RewardFunctions, key \in RewardKeys,
        scale \in RewardScales :
       /\ class = "transforms" => scale = 1
       /\ rt = [class |-> class, vocabulary |-> TransformVocabulary, reward_function |-> f,
                in_keys |-> <<"SMILES">>, out_keys |-> <<key>>, reward_scale |-> scale]
       /\ \E batch \in Batches(key) :
            \/ td = batch
            \/ td = SetNext(batch, OtherKey(key), [i \in 1..MaxSteps |-> 1])
  /\ calls = NoCalls
  /\ ret = NotCalled
  /\ archive = IdleTrainer.archive
  /\ repeated_smiles = IdleTrainer.repeated_smiles
  /\ buffer = IdleTrainer.buffer
  /\ rnn = IdleLoops.rnn
  /\ loop = IdleLoops.loop

RewardNext ==
  \/ \E outcomes \in OutcomePlans : Forward(outcomes)
  \/ \E outcomes \in OutcomePlans : ForwardTransform(outcomes)

\* one application of the transform to a batch
RewardSpec == RewardInit /\ [][RewardNext]_vars

(***************************************************************************)
(* Construction of the transform.  The arguments are Python values, named  *)
(* by strings: the two reward functions, a callable object that tests      *)
(* false (an empty container module), a number, an empty list, and         *)
(* factories that return a reward function, a number or None.              *)
(***************************************************************************)
\* isinstance(value, Callable)
IsCallable(value) ==
  value \in {"dummy_reward_function", "length_reward_function", "empty_module",
             "make_dummy", "make_number", "make_none"}

\* bool(value): None, the empty list and the empty container test false
Truthy(value) == value \notin {None, "[]", "empty_module"}

\* reward_function_creator(): what the factory returns
CallCreator(reward_function_creator) ==
  CASE reward_function_creator = "make_dummy" -> "dummy_reward_function"
    [] reward_function_creator = "make_number" -> "5"
    [] OTHER -> None

\* how a constructor ended: the object or the error, and how many times the
\* factory was invoked
Built(err, val, created) == [err |-> err, val |-> val, created |-> created]

\* SMILESReward.__init__ of examples/ppo/utils.py
SMILESReward_init(vocabulary, reward_function, reward_function_creator, in_keys, out_keys, reward_scale) ==
  IF reward_function = None /\ reward_function_creator = None
  THEN Built("ValueError", "Either reward_function or reward_function_creator", 0)
  ELSE IF ~Truthy(reward_function) /\ ~IsCallable(reward_function_creator)
  THEN Built("ValueError", "A reward_function_creator was provided", 0)
  ELSE LET created == IF ~Truthy(reward_function) THEN 1 ELSE 0
           function == IF ~Truthy(reward_function)
                       THEN CallCreator(reward_function_creator)
                       ELSE reward_function
       IN IF ~IsCallable(function)
          THEN Built("ValueError", "A reward_function was provided", created)
          ELSE Built("none",
                     [class |-> "utils", vocabulary |-> vocabulary,
                      reward_function |-> function,
                      in_keys |-> IF in_keys = None THEN <<"SMILES">> ELSE in_keys,
                      out_keys |-> IF out_keys = None THEN <<"reward">> ELSE out_keys,
                      reward_scale |-> reward_scale],
                     created)

\* SMILESReward.__init__ of acegen/transforms/reward_transform.py
SMILESReward_init_transforms(reward_function, vocabulary, in_keys, out_keys) ==
  IF ~IsCallable(reward_function)
  THEN Built("ValueError", "reward_function must be a callable.", 0)
  ELSE Built("none",
             [class |-> "transforms", vocabulary |-> vocabulary,
              reward_function |-> reward_function,
              in_keys |-> IF in_keys = None THEN <<"SMILES">> ELSE in_keys,
              out_keys |-> IF out_keys = None THEN <<"reward">> ELSE out_keys,
              reward_scale |-> 1],
             0)

RewardFunctionArgs ==
  {None, "dummy_reward_function", "length_reward_function", "empty_module", "5", "[]"}

CreatorArgs == {None, "make_dummy", "make_number", "make_none", "5"}

InKeyArgs == {None, <<"SMILES">>}

OutKeyArgs == {None, <<"reward">>, <<"reward2">>}

\* reward_transform = SMILESReward(vocabulary=..., reward_function=..., ...)
ConstructReward(reward_function, reward_function_creator, in_keys, out_keys, reward_scale) ==
  LET r == SMILESReward_init(voc, reward_function, reward_function_creator,
                             in_keys, out_keys, reward_scale)
  IN /\ op' = [name |-> "SMILESReward.__init__",
               in |-> [reward_function |-> reward_function,
                       reward_function_creator |-> reward_function_creator,
                       in_keys |-> in_keys, out_keys |-> out_keys,
                       reward_scale |-> reward_scale],
               out |-> r]
     /\ rt' = IF r.err = "none" THEN r.val ELSE None
     /\ UNCHANGED <<voc, td, calls, ret, trainerVars, loopVars>>

ConstructRewardTransforms(reward_function, in_keys, out_keys) ==
  LET r == SMILESReward_init_transforms(reward_function, voc, in_keys, out_keys)
  IN /\ op' = [name |-> "transforms.SMILESReward.__init__",
               in |-> [reward_function |-> reward_function,
                       reward_function_creator |-> None,
                       in_keys |-> in_keys, out_keys |-> out_keys,
                       reward_scale |-> 1],
               out |-> r]
     /\ rt' = IF r.err = "none" THEN r.val ELSE None
     /\ UNCHANGED <<voc, td, calls, ret, trainerVars, loopVars>>

ConfigInit ==
  /\ voc = TransformVocabulary
  /\ op = NoCall
  /\ td = IdleReward.td
  /\ rt = IdleReward.rt
  /\ calls = IdleReward.calls
  /\ ret = IdleReward.ret
  /\ archive = IdleTrainer.archive
  /\ repeated_smiles = IdleTrainer.repeated_smiles
  /\ buffer = IdleTrainer.buffer
  /\ rnn = IdleLoops.rnn
  /\ loop = IdleLoops.loop

ConfigNext ==
  \/ \E reward_function \in RewardFunctionArgs, reward_function_creator \in CreatorArgs,
        in_keys \in InKeyArgs, out_keys \in OutKeyArgs, reward_scale \in RewardScales :
       ConstructReward(reward_function, reward_function_creator, in_keys, out_keys,
                       reward_scale)
  \/ \E reward_function \in RewardFunctionArgs, in_keys \in InKeyArgs,
        out_keys \in OutKeyArgs :
       ConstructRewardTransforms(reward_function, in_keys, out_keys)

\* the constructions of a transform
ConfigSpec == ConfigInit /\ [][ConfigNext]_vars

(***************************************************************************)
(* remove_duplicated_keys and remove_keys_in_reference.  A tensordict is   *)
(* the sequence of its rows, a row a record of its fields; the field under *)
(* the key is a row of a 2-d tensor, a sequence of integers.               *)
(***************************************************************************)
\* tensordict.get(key)
TensorGet(tensordict, key) == [i \in 1..Len(tensordict) |-> tensordict[i][key]]

\* the order torch.unique(dim=0, sorted=True) puts rows in: lexicographic
LexLess(a, b) ==
  \E i \in 1..Len(a) :
    /\ a[i] < b[i]
    /\ \A j \in 1..(i - 1) : a[j] = b[j]

\* _, inverse = torch.unique(tensor, dim=0, sorted=True, return_inverse=True):
\* for every row of the tensor its position (from 0) among the distinct rows
\* in sorted order
unique_inverse(tensor) ==
  [i \in 1..Len(tensor) |-> Cardinality({r \in Range(tensor) : LexLess(r, tensor[i])})]

\* torch.unique of a 1-d tensor of integers: its distinct values, ascending
unique(indices) ==
  LET S == Range(indices)
  IN [j \in 1..Cardinality(S) |->
        CHOOSE x \in S : Cardinality({y \in S : y < x}) = j - 1]

\* tensordict[indices], the indices counted from 0
IndexRows(tensordict, indices) ==
  [j \in 1..Len(indices) |-> tensordict[indices[j] + 1]]

\* tensordict[~mask]
MaskOut(tensordict, mask) ==
  LET kept == MaskIndices([i \in 1..Len(mask) |-> ~mask[i]])
  IN [j \in 1..Len(kept) |-> tensordict[kept[j]]]

remove_duplicated_keys(tensordict, key) ==
  LET tensor == TensorGet(tensordict, key)
      inverse == unique_inverse(tensor)
      unique_indices == unique(inverse)
  IN IndexRows(tensordict, unique_indices)

\* variant: torch.isin against all of unique_indices, the slice [:N] forgotten
remove_keys_in_reference_unsliced(reference_tensordict, target_tensordict, key) ==
  LET reference_tensor == TensorGet(reference_tensordict, key)
      target_tensor == TensorGet(target_tensordict, key)
      N == Len(reference_tensor)
      unique_indices == unique_inverse(reference_tensor \o target_tensor)
      common_indices ==
        [i \in 1..Len(target_tensor) |->
           \E n \in 1..Len(unique_indices) : unique_indices[n] = unique_indices[N + i]]
  IN MaskOut(target_tensordict, common_indices)

remove_keys_in_reference(reference_tensordict, target_tensordict, key) ==
  LET reference_tensor == TensorGet(reference_tensordict, key)
      target_tensor == TensorGet(target_tensordict, key)
      N == Len(reference_tensor)
      cat_data == reference_tensor \o target_tensor
      unique_indices == unique_inverse(cat_data)
      common_indices ==
        [i \in 1..Len(target_tensor) |->
           \E n \in 1..N : unique_indices[n] = unique_indices[N + i]]
  IN MaskOut(target_tensordict, common_indices)

\* rows of the key tensor
KeyRows == {<<0, 1>>, <<1, 0>>, <<1, 1>>}

\* tensordicts with the key field and one more field
Tensordicts(n) == SeqsUpTo([SMILES : KeyRows, reward : PriorRewards], n)

\* reference tensordicts: only their key field is read
ReferenceTensordicts(n) == SeqsUpTo([SMILES : KeyRows, reward : {0}], n)

RemoveDuplicatedKeys(tensordict, key) ==
  /\ op.name = "none"
  /\ op' = [name |-> "remove_duplicated_keys",
            in |-> [tensordict |-> tensordict, key |-> key],
            out |-> remove_duplicated_keys(tensordict, key)]
  /\ UNCHANGED <<voc, rewardVars, trainerVars, loopVars>>

RemoveKeysInReference(reference_tensordict, target_tensordict, key) ==
  /\ op.name = "none"
  /\ op' = [name |-> "remove_keys_in_reference",
            in |-> [reference_tensordict |-> reference_tensordict,
                    target_tensordict |-> target_tensordict, key |-> key],
            out |-> remove_keys_in_reference(reference_tensordict, target_tensordict, key)]
  /\ UNCHANGED <<voc, rewardVars, trainerVars, loopVars>>

DedupInit ==
  /\ voc = DefaultVocabulary
  /\ op = NoCall
  /\ td = IdleReward.td
  /\ rt = IdleReward.rt
  /\ calls = IdleReward.calls
  /\ ret = IdleReward.ret
  /\ archive = IdleTrainer.archive
  /\ repeated_smiles = IdleTrainer.repeated_smiles
  /\ buffer = IdleTrainer.buffer
  /\ rnn = IdleLoops.rnn
  /\ loop = IdleLoops.loop

DedupNext ==
  \/ /\ op.name = "none"
     /\ \E tensordict \in Tensordicts(MaxRows) : RemoveDuplicatedKeys(tensordict, "SMILES")
  \/ /\ op.name = "none"
     /\ \E reference_tensordict \in ReferenceTensordicts(MaxRows - 1),
           target_tensordict \in Tensordicts(MaxRows) :
          RemoveKeysInReference(reference_tensordict, target_tensordict, "SMILES")

\* one application of a row filter to tensordicts from bounded sets
DedupSpec == DedupInit /\ [][DedupNext]_vars

(***************************************************************************)
(* The priority experience buffer.  Its class is not among the sources     *)
(* (wip.writer.TensorDictMaxValueWriter, acegen.experience_replay.         *)
(* Experience): the insertion policy is the one of the specification, the  *)
(* calls are those of the training scripts.  entries are the retained      *)
(* entries in the order they were inserted, offered every entry handed to  *)
(* the buffer; t numbers the entries in the order they were offered.       *)
(***************************************************************************)
RECURSIVE MinOf(_)
MinOf(S) == LET x == CHOOSE y \in S : TRUE
            IN IF S = {x} THEN x
               ELSE LET m == MinOf(S \ {x}) IN IF x < m THEN x ELSE m

\* the rank values of the retained entries
Ranks(entries) == {entries[i].reward : i \in 1..Len(entries)}

\* the sequence without its element at position i
RemoveAt(s, i) == SubSeq(s, 1, i - 1) \o SubSeq(s, i + 1, Len(s))

\* the position of the oldest entry of the lowest rank
Lowest(entries) ==
  CHOOSE i \in 1..Len(entries) :
    /\ entries[i].reward = MinOf(Ranks(entries))
    /\ \A j \in 1..(i - 1) : entries[j].reward # MinOf(Ranks(entries))

\* variant: a full buffer drops its oldest entry for every incoming entry
add_entry_fifo(self, entry) ==
  LET e == [entry EXCEPT !.t = Len(self.offered) + 1]
      offered == Append(self.offered, e)
  IN IF Len(self.entries) < self.capacity
     THEN [self EXCEPT !.entries = Append(@, e), !.offered = offered]
     ELSE [self EXCEPT !.entries = Append(Tail(@), e), !.offered = offered]

\* variant: an incoming entry of the lowest rank replaces an entry too
add_entry_nonstrict(self, entry) ==
  LET e == [entry EXCEPT !.t = Len(self.offered) + 1]
      offered == Append(self.offered, e)
  IN IF Len(self.entries) < self.capacity
     THEN [self EXCEPT !.entries = Append(@, e), !.offered = offered]
     ELSE IF e.reward >= MinOf(Ranks(self.entries))
     THEN [self EXCEPT !.entries = Append(RemoveAt(@, Lowest(@)), e), !.offered = offered]
     ELSE [self EXCEPT !.offered = offered]

\* one incoming entry: appended while the buffer is not full; in a full buffer
\* it replaces the oldest entry of the lowest rank if its rank exceeds that rank
add_entry(self, entry) ==
  LET e == [entry EXCEPT !.t = Len(self.offered) + 1]
      offered == Append(self.offered, e)
  IN IF Len(self.entries) < self.capacity
     THEN [self EXCEPT !.entries = Append(@, e), !.offered = offered]
     ELSE IF e.reward > MinOf(Ranks(self.entries))
     THEN [self EXCEPT !.entries = Append(RemoveAt(@, Lowest(@)), e), !.offered = offered]
     ELSE [self EXCEPT !.offered = offered]

RECURSIVE add_experience(_, _)
\* add(entries): the entries are inserted one after the other
add_experience(self, experience) ==
  IF experience = <<>> THEN self
  ELSE add_experience(add_entry(self, Head(experience)), Tail(experience))

\* an entry (text, reward, shaped reward, aux)
Entry(smiles, reward, shaped_reward, aux) ==
  [smiles |-> smiles, reward |-> reward, shaped_reward |-> shaped_reward, aux |-> aux,
   t |-> 0]

\* impala_multi_node.py: the terminal rows are decoded and zipped with their
\* rewards, twice, and with a likelihood of zeros
new_experience(vocabulary, replay_data) ==
  LET dec == decode_all(vocabulary, TensorGet(replay_data, "SMILES"), 1, <<>>)
  IN IF dec.err # "none" THEN Raise(dec.err, dec.val)
     ELSE Ok([i \in 1..Len(replay_data) |->
                Entry(dec.val[i], replay_data[i].reward, replay_data[i].reward, 0)])

\* ppo_kl_loss.py: the terminal rows with the fields the script selects
terminated_smiles(next_data) ==
  [i \in 1..Len(next_data) |->
     Entry(next_data[i].SMILES, next_data[i].reward, next_data[i].penalised_reward,
           next_data[i].step_count)]

RankValues == {0, 1, 2}

\* the terminal rows of a batch: GO C EOS or L C and padding, and a reward
TerminalRows ==
  {[SMILES |-> smiles, reward |-> reward, penalised_reward |-> reward, step_count |-> 2] :
     smiles \in {<<3, 0, 2>>, <<1, 0, -1>>}, reward \in RankValues}

\* impala_multi_node.py: experience_replay_buffer.add_experience(new_experience)
AddExperience(replay_data) ==
  /\ buffer.class = "Experience"
  /\ Len(buffer.offered) + Len(replay_data) <= MaxOffered
  /\ LET experience == new_experience(voc, replay_data)
     IN /\ buffer' = IF experience.err = "none"
                      THEN add_experience(buffer, experience.val)
                      ELSE buffer
        /\ op' = [name |-> "add_experience", in |-> replay_data, out |-> experience.err]
  /\ UNCHANGED <<voc, rewardVars, archive, repeated_smiles, loopVars>>

\* ppo_kl_loss.py: top_smiles_buffer.extend(terminated_smiles)
TopSmilesExtend(next_data) ==
  /\ buffer.class = "TensorDictMaxValueWriter"
  /\ Len(buffer.offered) + Len(next_data) <= MaxOffered
  /\ buffer' = add_experience(buffer, terminated_smiles(next_data))
  /\ op' = [name |-> "extend", in |-> next_data, out |-> "none"]
  /\ UNCHANGED <<voc, rewardVars, archive, repeated_smiles, loopVars>>

BufferInit ==
  /\ voc = TransformVocabulary
  /\ op = NoCall
  /\ td = IdleReward.td
  /\ rt = IdleReward.rt
  /\ calls = IdleReward.calls
  /\ ret = IdleReward.ret
  /\ archive = IdleTrainer.archive
  /\ repeated_smiles = IdleTrainer.repeated_smiles
  /\ \E class \in {"Experience", "TensorDictMaxValueWriter"} :
       buffer = [class |-> class, capacity |-> BufferCapacity, entries |-> <<>>,
                 offered |-> <<>>]
  /\ rnn = IdleLoops.rnn
  /\ loop = IdleLoops.loop

BufferNext ==
  \/ \E n \in 1..2 : \E replay_data \in [1..n -> TerminalRows] : AddExperience(replay_data)
  \/ \E n \in 1..2 : \E next_data \in [1..n -> TerminalRows] : TopSmilesExtend(next_data)

\* the experience buffer over the rounds of a training run
BufferSpec == BufferInit /\ [][BufferNext]_vars

(***************************************************************************)
(* The repetition penalty.  penalise_repeated_smiles (utils of             *)
(* ppo_kl_loss.py) and acegen.transforms.PenaliseRepeatedSMILES are not    *)
(* among the sources: the filter is the one of the specification, its      *)
(* configuration and its calls are those of the training scripts.  The     *)
(* archive is the sequence of the texts seen, in the order of insertion.   *)
(***************************************************************************)
RECURSIVE penalise_loop_stale(_, _, _, _, _, _, _, _)
\* variant: every text is looked up in the archive as it was before the batch
penalise_loop_stale(self, texts, reward, j, seen, repeats, out, before) ==
  IF j > Len(texts) THEN [reward |-> out, archive |-> seen, repeated_smiles |-> repeats]
  ELSE IF texts[j] \in Range(before)
       THEN penalise_loop_stale(self, texts, reward, j + 1, seen, repeats + 1,
                                Append(out, self.penalty), before)
       ELSE penalise_loop_stale(self, texts, reward, j + 1, Append(seen, texts[j]), repeats,
                                Append(out, reward[j]), before)

RECURSIVE penalise_loop(_, _, _, _, _, _, _, _)
\* the terminal trajectories in batch-index order: a text found in the archive
\* gets the penalty and is counted, a text not found is inserted and keeps its
\* reward
penalise_loop(self, texts, reward, j, seen, repeats, out, before) ==
  IF j > Len(texts) THEN [reward |-> out, archive |-> seen, repeated_smiles |-> repeats]
  ELSE IF texts[j] \in Range(seen)
       THEN penalise_loop(self, texts, reward, j + 1, seen, repeats + 1,
                          Append(out, self.penalty), before)
       ELSE penalise_loop(self, texts, reward, j + 1, Append(seen, texts[j]), repeats,
                          Append(out, reward[j]), before)

\* the filter on the "next" record of a batch: the rewards are read from
\* in_key and written to out_key, the shaped rewards at the terminal steps
penalise(self, vocabulary, next, seen, repeats) ==
  LET idx == MaskIndices(next["terminated"])
      texts == decode_all(vocabulary, SubGet(next, idx, self.check_duplicate_key), 1, <<>>).val
      r == penalise_loop(self, texts, SubGet(next, idx, self.in_key), 1, seen, repeats,
                         <<>>, seen)
      copied == [k \in DOMAIN next \cup {self.out_key} |->
                   IF k = self.out_key THEN next[self.in_key] ELSE next[k]]
  IN [next |-> SubSet(copied, idx, self.out_key, r.reward),
      archive |-> r.archive,
      repeated_smiles |-> r.repeated_smiles]

\* ppo_kl_loss.py: penalise_repeated_smiles(data, diversity_buffer,
\* repeated_smiles, in_keys="reward", out_keys="penalised_reward")
PenaliseFunction(penalty) ==
  [class |-> "penalise_repeated_smiles", check_duplicate_key |-> "SMILES",
   in_key |-> "reward", out_key |-> "penalised_reward", penalty |-> penalty]

\* impala_multi_node.py: PenaliseRepeatedSMILES(check_duplicate_key="SMILES",
\* in_key="reward", out_key="reward", penalty=cfg.repetition_penalty)
PenaliseRepeatedSMILES(penalty) ==
  [class |-> "PenaliseRepeatedSMILES", check_duplicate_key |-> "SMILES",
   in_key |-> "reward", out_key |-> "reward", penalty |-> penalty]

\* the encoded sequences of terminal steps: C as GO C EOS and as C EOS and
\* padding, ClC as L C and padding
TerminalSmiles == {<<3, 0, 2>>, <<0, 2, -1>>, <<1, 0, -1>>}

\* scored batches: the step i holds the reward i; a step that is not terminal
\* holds the sequence GO C
ScoredBatches ==
  {[observation |-> [i \in 1..MaxSteps |-> 0],
    next |-> [k \in {"observation", "done", "terminated", "SMILES", "reward"} |->
                CASE k = "observation" -> [i \in 1..MaxSteps |-> 0]
                  [] k = "done" -> [i \in 1..MaxSteps |-> smiles[i] \in TerminalSmiles]
                  [] k = "terminated" -> [i \in 1..MaxSteps |-> smiles[i] \in TerminalSmiles]
                  [] k = "SMILES" -> smiles
                  [] OTHER -> [i \in 1..MaxSteps |-> i]]] :
     smiles \in [1..MaxSteps -> TerminalSmiles \cup {<<3, 0, -1>>}]}

\* one round of ppo_kl_loss.py: the collector yields data, the function
\* penalises it and returns the counter
PenaliseRepeated(data) ==
  /\ rt.class = "penalise_repeated_smiles"
  /\ repeated_smiles < MaxRepeats
  /\ LET r == penalise(rt, voc, data.next, archive, repeated_smiles)
     IN /\ td' = [data EXCEPT !.next = r.next]
        /\ archive' = r.archive
        /\ repeated_smiles' = r.repeated_smiles
  /\ op' = [name |-> "penalise_repeated_smiles", in |-> data, out |-> None]
  /\ UNCHANGED <<voc, rt, calls, ret, buffer, loopVars>>

\* one round of impala_multi_node.py: data = penalty_transform(data) and
\* repeated_smiles = penalty_transform.repeated_smiles
PenaltyTransform(data) ==
  /\ rt.class = "PenaliseRepeatedSMILES"
  /\ repeated_smiles < MaxRepeats
  /\ LET r == penalise(rt, voc, data.next, archive, repeated_smiles)
     IN /\ td' = [data EXCEPT !.next = r.next]
        /\ archive' = r.archive
        /\ repeated_smiles' = r.repeated_smiles
  /\ op' = [name |-> "penalty_transform", in |-> data, out |-> None]
  /\ UNCHANGED <<voc, rt, calls, ret, buffer, loopVars>>

PenaltyInit ==
  /\ voc = TransformVocabulary
  /\ op = NoCall
  /\ td = IdleReward.td
  /\ rt \in {PenaliseFunction(0), PenaliseRepeatedSMILES(-1)}
  /\ calls = IdleReward.calls
  /\ ret = IdleReward.ret
  /\ archive = IdleTrainer.archive
  /\ repeated_smiles = IdleTrainer.repeated_smiles
  /\ buffer = IdleTrainer.buffer
  /\ rnn = IdleLoops.rnn
  /\ loop = IdleLoops.loop

PenaltyNext ==
  \/ \E data \in ScoredBatches : PenaliseRepeated(data)
  \/ \E data \in ScoredBatches : PenaltyTransform(data)

\* the repetition filter over the rounds of a training run
PenaltySpec == PenaltyInit /\ [][PenaltyNext]_vars

(***************************************************************************)
(* smiles_to_tensordict.  smiles is a batch of B rows of T tokens, reward  *)
(* one value for each row; the tensordict is the sequence of its B rows,   *)
(* each field of a row a sequence over the T - 1 steps.                    *)
(***************************************************************************)
\* tensor[:, :-1] of one row
DropLast(row) == SubSeq(row, 1, Len(row) - 1)

\* tensor[:, 1:] of one row
DropFirst(row) == SubSeq(row, 2, Len(row))

smiles_to_tensordict(smiles, reward) ==
  [b \in 1..Len(smiles) |->
     LET T == Len(smiles[b])
         mask == [t \in 1..T |-> smiles[b][t] # -1]
         rewards == [t \in 1..T |-> IF t = T THEN reward[b] ELSE 0]
         done == [t \in 1..T |-> t = T]
     IN [observation |-> DropLast(smiles[b]),
         action |-> DropFirst(smiles[b]),
         done |-> DropLast(done),
         terminated |-> DropLast(done),
         mask |-> DropLast(mask),
         next |-> [observation |-> DropFirst(smiles[b]),
                   reward |-> DropFirst(rewards),
                   done |-> DropFirst(done),
                   terminated |-> DropFirst(done)]]]

\* rows of T tokens: at least two tokens (C or EOS), then padding with -1
PaddedRows(T) ==
  {row \in [1..T -> {-1, 0, 2}] :
     /\ row[1] # -1
     /\ row[2] # -1
     /\ \A t \in 1..(T - 1) : row[t] = -1 => row[t + 1] = -1}

SmilesToTensordict(smiles, reward) ==
  /\ op.name = "none"
  /\ op' = [name |-> "smiles_to_tensordict",
            in |-> [smiles |-> smiles, reward |-> reward],
            out |-> smiles_to_tensordict(smiles, reward)]
  /\ UNCHANGED <<voc, rewardVars, trainerVars, loopVars>>

EpisodeInit ==
  /\ voc = TransformVocabulary
  /\ op = NoCall
  /\ td = IdleReward.td
  /\ rt = IdleReward.rt
  /\ calls = IdleReward.calls
  /\ ret = IdleReward.ret
  /\ archive = IdleTrainer.archive
  /\ repeated_smiles = IdleTrainer.repeated_smiles
  /\ buffer = IdleTrainer.buffer
  /\ rnn = IdleLoops.rnn
  /\ loop = IdleLoops.loop

EpisodeNext ==
  /\ op.name = "none"
  /\ \E B \in 1..2 :
       \E smiles \in [1..B -> PaddedRows(MaxSeq + 1)], reward \in [1..B -> PriorRewards] :
         SmilesToTensordict(smiles, reward)

\* one batch of rows made into an episode tensordict
EpisodeSpec == EpisodeInit /\ [][EpisodeNext]_vars

(***************************************************************************)
(* Sequence sampling: RNN.forward of examples/reinvent_molopt/model.py.    *)
(* The recurrent network is the environment of the loop: at each step it   *)
(* hands back, for every sequence of the batch, a sampled token and the    *)
(* log-probability of that token.  Log-probabilities are integers here.    *)
(***************************************************************************)

\* the longest max_length a call is made with
MaxLength == 3

\* what the network can sample at a step: a token index and its log-probability
SampleTokens == {1, 2}
LogProbs == {-1, -2}

\* self.voc.vocab[self.voc.end_token] and self.voc.vocab[self.voc.start_token]
end_index(vocabulary) == Get(vocabulary.vocab, vocabulary.end_token)
start_index(vocabulary) == Get(vocabulary.vocab, vocabulary.start_token)

\* torch.prod(finished) == 1
AllFinished(finished) == \A b \in DOMAIN finished : finished[b]

\* the locals of forward before the first iteration; sampled and logps record
\* what the network returned at each step
RNN_forward_enter(vocabulary, observation, max_length) ==
  LET batch == 1..Len(observation)
  IN [pc |-> IF max_length = 0 THEN "done" ELSE "loop",
      end |-> end_index(vocabulary),
      max_length |-> max_length,
      step |-> 0,
      x |-> observation,
      sequences |-> [b \in batch |-> [t \in 1..max_length |-> 0]],
      log_probs |-> [b \in batch |-> 0],
      finished |-> [b \in batch |-> FALSE],
      sampled |-> <<>>,
      logps |-> <<>>]

\* variant: the sampled token is written to every sequence, finished or not
RNN_forward_step_unmasked(self, x, logp) ==
  LET batch == DOMAIN self.finished
      column == self.step + 1
      sequences == [b \in batch |-> [self.sequences[b] EXCEPT ![column] = x[b]]]
      log_probs == [b \in batch |-> self.log_probs[b] + logp[b]]
      EOS_sampled == [b \in batch |-> x[b] = self.end]
      finished == [b \in batch |-> self.finished[b] \/ EOS_sampled[b]]
  IN [self EXCEPT !.pc = IF AllFinished(finished) \/ column = self.max_length THEN "done" ELSE "loop",
                  !.step = column,
                  !.x = x,
                  !.sequences = sequences,
                  !.log_probs = log_probs,
                  !.finished = finished,
                  !.sampled = Append(self.sampled, x),
                  !.logps = Append(self.logps, logp)]

\* one iteration of the loop: the network returned tokens x with log-probabilities logp
RNN_forward_step(self, x, logp) ==
  LET batch == DOMAIN self.finished
      column == self.step + 1
      sequences == [b \in batch |-> IF self.finished[b] THEN self.sequences[b]
                                    ELSE [self.sequences[b] EXCEPT ![column] = x[b]]]
      log_probs == [b \in batch |-> self.log_probs[b] + logp[b]]
      EOS_sampled == [b \in batch |-> x[b] = self.end]
      finished == [b \in batch |-> self.finished[b] \/ EOS_sampled[b]]
  IN [self EXCEPT !.pc = IF AllFinished(finished) \/ column = self.max_length THEN "done" ELSE "loop",
                  !.step = column,
                  !.x = x,
                  !.sequences = sequences,
                  !.log_probs = log_probs,
                  !.finished = finished,
                  !.sampled = Append(self.sampled, x),
                  !.logps = Append(self.logps, logp)]

\* forward(observation, max_length) is entered
RNNForward(observation, max_length) ==
  /\ rnn.pc = "idle"
  /\ rnn' = RNN_forward_enter(voc, observation, max_length)
  /\ UNCHANGED <<voc, op, rewardVars, trainerVars, loop>>

\* the body of the loop runs once
RNNStep(x, logp) ==
  /\ rnn.pc = "loop"
  /\ rnn' = RNN_forward_step(rnn, x, logp)
  /\ UNCHANGED <<voc, op, rewardVars, trainerVars, loop>>

SampleInit ==
  /\ voc = TransformVocabulary
  /\ op = NoCall
  /\ td = IdleReward.td
  /\ rt = IdleReward.rt
  /\ calls = IdleReward.calls
  /\ ret = IdleReward.ret
  /\ archive = IdleTrainer.archive
  /\ repeated_smiles = IdleTrainer.repeated_smiles
  /\ buffer = IdleTrainer.buffer
  /\ rnn = IdleLoops.rnn
  /\ loop = IdleLoops.loop

SampleNext ==
  \/ /\ rnn.pc = "idle"
     /\ \E batch_size \in 1..2, max_length \in 1..MaxLength :
          RNNForward([b \in 1..batch_size |-> start_index(voc)], max_length)
  \/ /\ rnn.pc = "loop"
     /\ \E x \in [DOMAIN rnn.finished -> SampleTokens], logp \in [DOMAIN rnn.finished -> LogProbs] :
          RNNStep(x, logp)

\* one call of RNN.forward, the network sampling freely
SampleSpec == SampleInit /\ [][SampleNext]_vars

(***************************************************************************)
(* The training loop of examples/impala/impala_multi_node.py.  A batch of  *)
(* the collector is one row of one frame; the stacked batch is laid out as *)
(* the "next" record of the frames of its rows.  The loop is cut at the    *)
(* calls of the three components; loop.trace names the calls of a round.   *)
(***************************************************************************)

\* the training updates a run is followed for
MaxUpdates == 23

\* the capacity of the Experience buffer of the script
ExperienceCapacity == 22

\* len(experience_replay_buffer) > 20
replay_threshold == 20

\* penalty_transform = None
NoPenalty == [class |-> "None"]

\* experience_replay_buffer = None, or Experience(vocabulary)
NoExperience == [class |-> "None", capacity |-> 0, entries |-> <<>>, offered |-> <<>>]
Experience(vocabulary) == [class |-> "Experience", capacity |-> ExperienceCapacity, entries |-> <<>>, offered |-> <<>>]

\* rew_transform = SMILESReward(reward_function=scoring_function,
\* vocabulary=vocabulary, in_keys=["SMILES"], out_keys=["reward"])
rew_transform(reward_function) == SMILESReward_init(TransformVocabulary, reward_function, None, <<"SMILES">>, <<"reward">>, 1).val

\* a scoring call that returns
Scored == [a \in 1..max_attempts |-> "ok"]

\* what the environment hands to its transforms after a step: a frame that ends
\* the sequence GO C EOS, or a frame in the middle of a sequence; reward 0
EnvFrames ==
  {[observation |-> <<0>>, done |-> <<flag>>, terminated |-> <<flag>>,
    SMILES |-> <<IF flag THEN <<3, 0, 2>> ELSE <<3, 0, -1>>>>, reward |-> <<0>>] :
     flag \in BOOLEAN}

\* env.append_transform(rew_transform): the environment runs _call of the
\* transform on the "next" record of every step before the collector sees it
env_step(transform, frame) == SMILESReward_call(transform, frame, Scored).next

RECURSIVE cat(_)
\* torch.cat(accumulator, dim=0)
cat(accumulator) ==
  IF Len(accumulator) = 1 THEN accumulator[1].next
  ELSE LET head == accumulator[1].next
           rest == cat(Tail(accumulator))
       IN [k \in DOMAIN head |-> head[k] \o rest[k]]

\* the locals of main before the loop
impala_enter(batch_size, sgd_updates, penalty_transform) ==
  [pc |-> "collect",
   batch_size |-> batch_size,
   sgd_updates |-> sgd_updates,
   penalty_transform |-> penalty_transform,
   accumulator |-> <<>>,
   yielded |-> 0,
   updates |-> 0,
   data |-> <<>>,
   stacked |-> {},
   raw |-> <<>>,
   replay_data |-> <<>>,
   j |-> 0,
   sampled |-> <<>>,
   replay_batches |-> 1,
   trace |-> <<>>]

\* the head of the loop body: the batch the collector yields is appended while
\* the accumulator holds fewer than batch_size batches; otherwise the
\* accumulator is stacked into data
impala_collect(self, next) ==
  LET id == self.yielded + 1
  IN IF Len(self.accumulator) < self.batch_size
     THEN [self EXCEPT !.yielded = id, !.accumulator = Append(@, [id |-> id, next |-> next])]
     ELSE [self EXCEPT !.yielded = id,
                       !.updates = @ + 1,
                       !.data = cat(self.accumulator),
                       !.stacked = {self.accumulator[i].id : i \in 1..Len(self.accumulator)},
                       !.trace = <<>>,
                       !.sampled = <<>>,
                       !.pc = "rew_transform"]

\* data = rew_transform(data)
impala_reward(self, transform) ==
  [self EXCEPT !.data = SMILESReward_call(transform, self.data, Scored).next,
               !.trace = Append(@, "rew_transform"),
               !.pc = IF self.penalty_transform.class = "None" THEN "capture" ELSE "penalty_transform"]

\* the terminal rows of "next" with their sequence and reward
TerminatedRows(next) ==
  LET idx == MaskIndices(next["terminated"])
  IN [i \in 1..Len(idx) |-> [SMILES |-> next["SMILES"][idx[i]], reward |-> next["reward"][idx[i]]]]

\* data = penalty_transform(data) and the statistics of the penalised rewards:
\* min() of no reward raises
impala_penalty(self, vocabulary, seen, repeats) ==
  LET r == penalise(self.penalty_transform, vocabulary, self.data, seen, repeats)
      episode_rewards == TerminatedRows(r.next)
  IN [loop |-> [self EXCEPT !.data = r.next,
                            !.raw = TerminatedRows(self.data),
                            !.trace = Append(@, "penalty_transform"),
                            !.pc = IF Len(episode_rewards) = 0 THEN "RuntimeError" ELSE "capture"],
      archive |-> r.archive,
      repeated_smiles |-> r.repeated_smiles]

\* variant: the captured rows are put into the buffer before the SGD updates
impala_capture_early(self) ==
  [self EXCEPT !.replay_data = TerminatedRows(self.data),
               !.raw = IF self.penalty_transform.class = "None" THEN TerminatedRows(self.data) ELSE @,
               !.trace = Append(@, "replay_data"),
               !.j = 0,
               !.pc = "add_experience"]

\* replay_data: the terminated rows of a copy of data.get("next")
impala_capture(self) ==
  [self EXCEPT !.replay_data = TerminatedRows(self.data),
               !.raw = IF self.penalty_transform.class = "None" THEN TerminatedRows(self.data) ELSE @,
               !.trace = Append(@, "replay_data"),
               !.j = 0,
               !.pc = "sgd"]

\* variant: the buffer is sampled whenever experience replay is enabled
impala_sgd_ungated(self, experience_replay_buffer) ==
  LET replay == experience_replay_buffer.class # "None"
  IN [self EXCEPT !.sampled = Append(@, IF replay THEN self.replay_batches ELSE 0),
                  !.trace = Append(@, IF replay THEN "sample_replay_batch" ELSE "sgd"),
                  !.j = @ + 1,
                  !.pc = IF self.j + 1 = self.sgd_updates THEN "add_experience" ELSE "sgd"]

\* one pass of the loop over j: the buffer is sampled cfg.replay_batches times
\* if it is there and holds more than 20 entries, and the update is made
impala_sgd(self, experience_replay_buffer) ==
  LET replay == /\ experience_replay_buffer.class # "None"
                /\ Len(experience_replay_buffer.entries) > replay_threshold
  IN [self EXCEPT !.sampled = Append(@, IF replay THEN self.replay_batches ELSE 0),
                  !.trace = Append(@, IF replay THEN "sample_replay_batch" ELSE "sgd"),
                  !.j = @ + 1,
                  !.pc = IF self.j + 1 = self.sgd_updates THEN "add_experience" ELSE "sgd"]

\* the end of the loop body: the captured rows go to the buffer if it is there,
\* and accumulator = []; the locals of the round are not read again
impala_add(self, vocabulary, experience_replay_buffer) ==
  LET enabled == experience_replay_buffer.class # "None"
  IN [loop |-> [self EXCEPT !.accumulator = <<>>,
                            !.data = <<>>,
                            !.replay_data = <<>>,
                            !.raw = <<>>,
                            !.trace = IF enabled THEN Append(@, "add_experience") ELSE @,
                            !.pc = "collect"],
      buffer |-> IF enabled
                 THEN add_experience(experience_replay_buffer,
                                     new_experience(vocabulary, self.replay_data).val)
                 ELSE experience_replay_buffer]

\* the collector yields a batch: lines 336 to 357
Collect(frame) ==
  /\ loop.pc = "collect"
  /\ loop.updates < MaxUpdates
  /\ loop' = impala_collect(loop, env_step(rt, frame))
  /\ UNCHANGED <<voc, op, rewardVars, trainerVars, rnn>>

\* line 360
RewTransform ==
  /\ loop.pc = "rew_transform"
  /\ loop' = impala_reward(loop, rt)
  /\ UNCHANGED <<voc, op, rewardVars, trainerVars, rnn>>

\* lines 379 to 390
Penalise ==
  /\ loop.pc = "penalty_transform"
  /\ LET r == impala_penalty(loop, voc, archive, repeated_smiles)
     IN /\ loop' = r.loop
        /\ archive' = r.archive
        /\ repeated_smiles' = r.repeated_smiles
  /\ UNCHANGED <<voc, op, rewardVars, buffer, rnn>>

\* lines 393 to 408
Capture ==
  /\ loop.pc = "capture"
  /\ loop' = impala_capture(loop)
  /\ UNCHANGED <<voc, op, rewardVars, trainerVars, rnn>>

\* lines 410 to 459, once
SgdUpdate ==
  /\ loop.pc = "sgd"
  /\ loop' = impala_sgd(loop, buffer)
  /\ UNCHANGED <<voc, op, rewardVars, trainerVars, rnn>>

\* lines 461 to 480
AddToBuffer ==
  /\ loop.pc = "add_experience"
  /\ LET r == impala_add(loop, voc, buffer)
     IN /\ loop' = r.loop
        /\ buffer' = r.buffer
  /\ UNCHANGED <<voc, op, rewardVars, archive, repeated_smiles, rnn>>

ImpalaInit ==
  /\ voc = TransformVocabulary
  /\ op = NoCall
  /\ td = IdleReward.td
  /\ rt = rew_transform("dummy_reward_function")
  /\ calls = IdleReward.calls
  /\ ret = IdleReward.ret
  /\ archive = IdleTrainer.archive
  /\ repeated_smiles = IdleTrainer.repeated_smiles
  /\ buffer \in {NoExperience, Experience(voc)}
  /\ rnn = IdleLoops.rnn
  /\ \E batch_size \in 1..2, sgd_updates \in 1..2 :
       \E penalty_transform \in {NoPenalty, PenaliseRepeatedSMILES(-1)} :
         loop = impala_enter(batch_size, sgd_updates, penalty_transform)

ImpalaNext ==
  \/ \E frame \in EnvFrames : Collect(frame)
  \/ RewTransform
  \/ Penalise
  \/ Capture
  \/ SgdUpdate
  \/ AddToBuffer

\* a training run of impala_multi_node.py
ImpalaSpec == ImpalaInit /\ [][ImpalaNext]_vars

(***************************************************************************)
(* Properties of the vocabulary                                            *)
(***************************************************************************)
StartIndex(self) == Get(self.vocab, self.start_token)

EndIndex(self) == Get(self.vocab, self.end_token)

Reserved(self) == Range(self.special_tokens)

\* the tokens of the text are all non-reserved tokens of the vocabulary
Encodable(self, smiles) ==
  \A t \in Range(tokenize(smiles)) : Has(self.vocab, t) /\ t \notin Reserved(self)

\* C1: round trip. For a text whose tokens are all non-reserved vocabulary
\* tokens and whose length is below max_length, encode succeeds and decoding
\* its result gives the text with 'L' rewritten to 'Cl' and 'R' to 'Br'.
C1_RoundTrip ==
  (/\ op.name = "encode"
   /\ voc.tokenizer # None
   /\ Encodable(voc, op.in)
   /\ Len(op.in) < voc.max_length)
    => /\ op.out.err = "none"
       /\ decode(voc, op.out.val, {}) = Ok(canonicalize(op.in))

\* C1 witness: a two-character text with a placeholder was encoded, so the
\* decoded text differs from the text given
C1_Witness ==
  /\ op.name = "encode"
  /\ voc.tokenizer # None
  /\ Encodable(voc, op.in)
  /\ Len(op.in) = 2
  /\ Len(op.in) < voc.max_length
  /\ "R" \in Range(op.in)
  /\ "C" \in Range(op.in)
  /\ op.out.err = "none"
  /\ Len(op.out.val) = 2

\* C2: the vocabulary create_from_smiles returns for a corpus is the one
\* create_from_dict returns for the mapping sorted tokens + [end, start] -> 0..N
\* with the same tokenizer, start and end token and max_length: same mapping,
\* same reserved tokens, same max_length, same tokenizer, and encode works on it.
C2_ConstructorsEquivalent ==
  (op.name = "create_from_smiles") =>
    LET a == op.in
        keys == SortSet(corpus_tokens(a.smiles_list)) \o <<a.end_token, a.start_token>>
        mapping == [i \in 1..Len(keys) |-> [k |-> keys[i], v |-> i - 1]]
        other == create_from_dict(mapping, a.start_token, a.end_token, a.max_length,
                                  a.tokenizer)
    IN /\ Range(voc.vocab) = Range(other.vocab)
       /\ voc.special_tokens = other.special_tokens
       /\ voc.max_length = other.max_length
       /\ voc.tokenizer = other.tokenizer
       /\ encode(voc, <<>>).err = "none"

\* the position of the first end-token index in an index array, 0 when it has none
FirstEnd(self, seq) ==
  IF \E k \in 1..Len(seq) : seq[k] = EndIndex(self)
  THEN CHOOSE k \in 1..Len(seq) :
         seq[k] = EndIndex(self) /\ \A j \in 1..(k - 1) : seq[j] # EndIndex(self)
  ELSE 0

\* the decoded text is the text that the index array cut before its first
\* end-token index decodes to, and holds nothing of the end token
StopsAtFirstEnd ==
  LET seq == op.in.encoded_smiles
      k == FirstEnd(voc, seq)
  IN (k > 0 /\ op.out.err = "none") =>
       /\ op.out = decode(voc, SubSeq(seq, 1, k - 1), op.in.ignore_indices)
       /\ "E" \notin Range(op.out.val)

\* C3 as claimed: for every index array and every ignore_indices, no index at or
\* after the first end-token index contributes to the decoded text, and the end
\* token is never appended.
C3_StopsAtFirstEnd_Claimed == (op.name = "decode") => StopsAtFirstEnd

\* C3 as amended: the same, for an ignore_indices that does not hold the
\* end-token index and a vocabulary whose start and end token have different
\* indices.
C3_StopsAtFirstEnd ==
  (/\ op.name = "decode"
   /\ EndIndex(voc) \notin op.in.ignore_indices
   /\ EndIndex(voc) # StartIndex(voc))
    => StopsAtFirstEnd

\* C3 witness: an end token stands between an index that was decoded and the
\* index of an ordinary token, which was not
C3_Witness ==
  /\ op.name = "decode"
  /\ EndIndex(voc) \notin op.in.ignore_indices
  /\ EndIndex(voc) # StartIndex(voc)
  /\ Len(op.in.encoded_smiles) = 3
  /\ FirstEnd(voc, op.in.encoded_smiles) = 2
  /\ LET last == op.in.encoded_smiles[3]
     IN /\ last \notin op.in.ignore_indices
        /\ Has(voc.reversed_vocab, last)
        /\ Get(voc.reversed_vocab, last) \notin Reserved(voc)
  /\ op.out.err = "none"
  /\ op.out.val # <<>>

\* the indices that are neither ignored nor the start token's, in order
Remaining(self, seq, ignore_indices) ==
  LET kept(i) == i \notin ignore_indices /\ i # StartIndex(self)
  IN SelectSeq(seq, kept)

\* those of them that precede the first end token
BeforeEnd(self, seq, ignore_indices) ==
  LET rem == Remaining(self, seq, ignore_indices)
      k == FirstEnd(self, rem)
  IN IF k = 0 THEN rem ELSE SubSeq(rem, 1, k - 1)

\* every index of the array has a token
Decodable(self, seq) == \A i \in 1..Len(seq) : Has(self.reversed_vocab, seq[i])

TokensOf(self, seq) == [i \in 1..Len(seq) |-> Get(self.reversed_vocab, seq[i])]

\* C4 as claimed: decode skips, without stopping, the ignored indices and the
\* start token's index; the decoded text is the concatenation, in order, of the
\* tokens of the remaining indices that precede the first end token.
C4_SkipsIgnoredAndStart_Claimed ==
  (op.name = "decode" /\ op.out.err = "none") =>
    /\ Decodable(voc, BeforeEnd(voc, op.in.encoded_smiles, op.in.ignore_indices))
    /\ op.out.val = Join(TokensOf(voc, BeforeEnd(voc, op.in.encoded_smiles,
                                                 op.in.ignore_indices)))

\* C4 as amended: the decoded text is that concatenation with 'L' rewritten to
\* 'Cl' and 'R' to 'Br'.
C4_SkipsIgnoredAndStart ==
  (op.name = "decode" /\ op.out.err = "none") =>
    /\ Decodable(voc, BeforeEnd(voc, op.in.encoded_smiles, op.in.ignore_indices))
    /\ op.out.val = canonicalize(Join(TokensOf(voc, BeforeEnd(voc, op.in.encoded_smiles,
                                                              op.in.ignore_indices))))

\* C4 witness: an ignored index and the start token's index were passed over
\* and the index after them was decoded
C4_Witness ==
  /\ op.name = "decode"
  /\ op.out.err = "none"
  /\ Len(op.in.encoded_smiles) = 3
  /\ op.in.encoded_smiles[1] \in op.in.ignore_indices
  /\ op.in.encoded_smiles[2] = StartIndex(voc)
  /\ op.in.encoded_smiles[2] \notin op.in.ignore_indices
  /\ op.out.val # <<>>

\* the first token of a token list that the mapping does not hold
FirstMissing(self, char_list) ==
  char_list[CHOOSE i \in 1..Len(char_list) :
              /\ ~Has(self.vocab, char_list[i])
              /\ \A j \in 1..(i - 1) : Has(self.vocab, char_list[j])]

\* C5: when the tokenized text holds a token that is not in the vocabulary,
\* encode raises the missing-key error for the first such token, returns no
\* index array, and leaves the vocabulary as it was.
C5_EncodeMissingToken ==
  [][(/\ op'.name = "encode"
      /\ op.name = "none"
      /\ voc.tokenizer # None
      /\ \E t \in Range(tokenize(op'.in)) : ~Has(voc.vocab, t))
       => /\ op'.out = Raise("KeyError", FirstMissing(voc, tokenize(op'.in)))
          /\ voc' = voc]_vars

\* C5 witness: encode failed at the second token, after a token it had encoded
C5_Witness ==
  /\ op.name = "encode"
  /\ op.out.err = "KeyError"
  /\ Len(tokenize(op.in)) = 2
  /\ Has(voc.vocab, tokenize(op.in)[1])
  /\ op.out.val = tokenize(op.in)[2]

\* C6: after add_characters(new_chars) the non-reserved tokens, old and new
\* merged without duplicates, have the indices 0..K-1 in sorted order, the end
\* token has index K and the start token K+1; a reserved literal among
\* new_chars adds no second copy.
C6_AddCharacters ==
  [][(op'.name = "add_characters" /\ op' # op) =>
       LET reserved == Reserved(voc)
           merged == (Range(voc.chars) \cup Range(op'.in)) \ reserved
           K == Cardinality(merged)
       IN /\ Len(voc'.chars) = K + 2
          /\ Len(voc'.vocab) = K + 2
          /\ {voc'.chars[i] : i \in 1..K} = merged
          /\ \A i \in 1..K : \A j \in 1..K :
               i < j => Rank(voc'.chars[i]) < Rank(voc'.chars[j])
          /\ \A i \in 1..K : Get(voc'.vocab, voc'.chars[i]) = i - 1
          /\ Get(voc'.vocab, voc'.end_token) = K
          /\ Get(voc'.vocab, voc'.start_token) = K + 1
          /\ voc'.end_token = voc.end_token
          /\ voc'.start_token = voc.start_token]_vars

\* C6 witness: add_characters was given a reserved literal and a new token, and
\* the vocabulary held a token that was not among those given
C6_Witness ==
  /\ op.name = "add_characters"
  /\ voc.end_token \in Range(op.in)
  /\ \E c \in Range(op.in) : c \notin Reserved(voc)
  /\ \E c \in voc.additional_chars : c \notin Range(op.in)
  /\ Len(voc.chars) >= 4

\* token -> index is one-to-one, reversed_vocab is its inverse, and
\* len(vocabulary) = vocab_size = the number of mapped tokens
Bijection(self) ==
  /\ \A i \in 1..Len(self.vocab) : \A j \in 1..Len(self.vocab) :
       self.vocab[i].v = self.vocab[j].v => i = j
  /\ Len(self.reversed_vocab) = Len(self.vocab)
  /\ \A i \in 1..Len(self.vocab) :
       /\ Has(self.reversed_vocab, self.vocab[i].v)
       /\ Get(self.reversed_vocab, self.vocab[i].v) = self.vocab[i].k
  /\ len(self) = self.vocab_size
  /\ self.vocab_size = Len(self.vocab)

\* C7 as claimed: in every reachable state of the vocabulary the mapping is a
\* bijection, reversed_vocab its inverse and len = vocab_size = mapped tokens.
C7_Bijection_Claimed == Bijection(voc)

\* C7 as amended: the same, when the constructor was given two different
\* indices for the reserved tokens (create_from_dict is given a one-to-one
\* mapping that holds both reserved tokens).
C7_Bijection ==
  (op.name = "__init__" => op.in.start_token_index # op.in.end_token_index)
    => Bijection(voc)

\* C7 witness: create_from_dict was given a mapping of four tokens that puts the
\* start token first
C7_Witness ==
  /\ op.name = "create_from_dict"
  /\ Len(voc.vocab) = 4
  /\ StartIndex(voc) = 0
  /\ Bijection(voc)

\* C8: the start token has the start_token_index and the end token the
\* end_token_index given to the constructor, after construction and after an
\* add_characters call that follows it.
C8_ReservedIndicesKept ==
  [][/\ (op'.name = "__init__") =>
          /\ StartIndex(voc') = op'.in.start_token_index
          /\ EndIndex(voc') = op'.in.end_token_index
     /\ (/\ op.name = "__init__"
         /\ op.in.start_token_index # op.in.end_token_index
         /\ op'.name = "add_characters") =>
          /\ StartIndex(voc') = op.in.start_token_index
          /\ EndIndex(voc') = op.in.end_token_index]_vars

(***************************************************************************)
(* Properties of the reward transform                                      *)
(***************************************************************************)
\* the steps of the batch whose terminal flag is set
TerminalSteps(batch) == MaskIndices(batch.next["done"])

\* C9: when no step of the batch has its terminal flag set, the transform
\* leaves every field of the batch as it was and calls neither the decoder nor
\* the reward function.
C9_NoTerminalNoOp ==
  [][(ret'.called /\ ~ret.called /\ TerminalSteps(td) = <<>>) =>
       /\ td' = td
       /\ calls'.decode = <<>>
       /\ calls'.reward_function = <<>>
       /\ ret'.err = "none"]_vars

\* C9 witness: the transform returned from a batch without terminal steps that
\* holds a reward and an encoded sequence it could not have decoded
C9_Witness ==
  /\ ret.called
  /\ TerminalSteps(td) = <<>>
  /\ \E i \in 1..MaxSteps : td.next[rt.out_keys[1]][i] = 1
  /\ \E i \in 1..MaxSteps : td.next["SMILES"][i] = <<0, 7, 2>>

\* the texts of the terminal steps, in scan order
TerminalTexts(batch) ==
  LET idx == TerminalSteps(batch)
  IN [j \in 1..Len(idx) |-> decode(voc, batch.next["SMILES"][idx[j]], {-1}).val]

\* C10: for a batch with a terminal step and a reward function that does not
\* fail, the reward function is called exactly once, with the list of the
\* decoded texts of all terminal steps in scan order.
C10_OneScoringCall ==
  (/\ ret.called
   /\ ret.err = "none"
   /\ ret.attempts = 1
   /\ TerminalSteps(td) # <<>>)
    => calls.reward_function = <<TerminalTexts(td)>>

\* C10 witness: two terminal steps with different texts were scored in one call
C10_Witness ==
  /\ ret.called
  /\ ret.err = "none"
  /\ Len(calls.reward_function) = 1
  /\ Len(TerminalSteps(td)) = 2
  /\ calls.reward_function[1][1] # calls.reward_function[1][2]

\* every terminal step of the batch holds a sequence the vocabulary decodes
DecodesAll(batch) ==
  \A i \in 1..Len(batch.next["done"]) :
    batch.next["done"][i] => decode(voc, batch.next["SMILES"][i], {-1}).err = "none"

\* C11: the transform of examples/ppo/utils.py calls the reward function at
\* most 3 times for a batch, every time with the same list of texts; it calls
\* again only after a RuntimeError, it stops at the first call that does not
\* raise RuntimeError, and a RuntimeError of the third call is the error the
\* caller gets.
C11_BoundedRetry ==
  (ret.called /\ rt.class = "utils" /\ TerminalSteps(td) # <<>> /\ DecodesAll(td))
    => LET n == Len(calls.raised)
       IN /\ n \in 1..3
          /\ ret.attempts = n
          /\ calls.reward_function = [a \in 1..n |-> TerminalTexts(td)]
          /\ \A a \in 1..(n - 1) : calls.raised[a] = "RuntimeError"
          /\ calls.raised[n] = "RuntimeError" => (n = 3 /\ ret.err = "RuntimeError")
          /\ calls.raised[n] = "ok" => ret.err = "none"

\* C11 witness: three calls of the reward function raised RuntimeError and the
\* transform raised it to its caller
C11_Witness ==
  /\ ret.called
  /\ rt.class = "utils"
  /\ calls.raised = <<"RuntimeError", "RuntimeError", "RuntimeError">>
  /\ Len(calls.reward_function) = 3
  /\ ret.err = "RuntimeError"

RECURSIVE SumSeq(_)
SumSeq(s) == IF s = <<>> THEN 0 ELSE Head(s) + SumSeq(Tail(s))

\* C12: after a successful call of the transform of examples/ppo/utils.py the
\* reward of every terminal step is (its reward before the call + the score of
\* its text) * reward_scale, whichever attempt succeeded; with the reward
\* function that returns 1 for every text, rewards of 0 before the call and scale
\* 1, the rewards of the terminal steps add up to the number of terminal steps.
C12_Additivity ==
  [][(ret'.called /\ ~ret.called /\ rt.class = "utils" /\ ret'.err = "none"
        /\ TerminalSteps(td) # <<>>)
       => LET idx == TerminalSteps(td)
              key == rt.out_keys[1]
              scores == apply_reward_function(rt.reward_function, TerminalTexts(td))
          IN /\ \A j \in 1..Len(idx) :
                  td'.next[key][idx[j]]
                    = (td.next[key][idx[j]] + scores[j]) * rt.reward_scale
             /\ (/\ rt.reward_function = "dummy_reward_function"
                 /\ rt.reward_scale = 1
                 /\ \A j \in 1..Len(idx) : td.next[key][idx[j]] = 0)
                  => SumSeq([j \in 1..Len(idx) |-> td'.next[key][idx[j]]]) = Len(idx)]_vars

\* C12 witness: the third attempt succeeded on a terminal step that had reward 1
\* and the text ClC, scored 3 and scaled by 2
C12_Witness ==
  /\ ret.called
  /\ rt.class = "utils"
  /\ ret.err = "none"
  /\ ret.attempts = 3
  /\ rt.reward_scale = 2
  /\ rt.reward_function = "length_reward_function"
  /\ \E i \in 1..MaxSteps :
       /\ td.next["done"][i]
       /\ td.next["SMILES"][i] = <<1, 0, -1>>
       /\ td.next[rt.out_keys[1]][i] = 8

\* C13: a call of the transform of examples/ppo/utils.py leaves the reward of
\* every step whose terminal flag is not set as it was, and leaves every field
\* other than its reward field as it was.
C13_NonTerminalIsolation ==
  [][(ret'.called /\ ~ret.called /\ rt.class = "utils")
       => LET key == rt.out_keys[1]
          IN /\ td'.observation = td.observation
             /\ DOMAIN td'.next = DOMAIN td.next
             /\ \A k \in DOMAIN td.next \ {key} : td'.next[k] = td.next[k]
             /\ \A i \in 1..Len(td.next["done"]) :
                  ~td.next["done"][i] => td'.next[key][i] = td.next[key][i]]_vars

\* C13 witness: a successful call on a batch that has a second reward field, a
\* terminal step after a step that is not terminal and holds reward 1
C13_Witness ==
  /\ ret.called
  /\ rt.class = "utils"
  /\ ret.err = "none"
  /\ OtherKey(rt.out_keys[1]) \in DOMAIN td.next
  /\ \E i, j \in 1..MaxSteps :
       /\ i < j
       /\ ~td.next["done"][i]
       /\ td.next[rt.out_keys[1]][i] = 1
       /\ td.next["done"][j]

\* C14: a transform built with out_keys = ["reward2"] and applied to a batch
\* whose terminal steps decode takes the encoded sequences from in_keys[0],
\* adds the scores to the field reward2, and neither reads (no KeyError for a
\* batch without it), creates nor changes a field named reward.
C14_ConfiguredFields ==
  [][(ret'.called /\ ~ret.called /\ rt.out_keys = <<"reward2">> /\ TerminalSteps(td) # <<>>
        /\ DecodesAll(td))
       => LET idx == TerminalSteps(td)
          IN /\ ret'.err # "KeyError"
             /\ DOMAIN td'.next = DOMAIN td.next
             /\ "reward" \in DOMAIN td.next => td'.next["reward"] = td.next["reward"]
             /\ ret'.err = "none" =>
                  /\ calls'.decode = SubGet(td.next, idx, rt.in_keys[1])
                  /\ \A j \in 1..Len(idx) :
                       td'.next["reward2"][idx[j]]
                         = (td.next["reward2"][idx[j]]
                              + apply_reward_function(rt.reward_function,
                                                      TerminalTexts(td))[j])
                           * rt.reward_scale]_vars

\* C15: the constructor of the transform raises the configuration error
\* (ValueError in the code) and builds no object when no reward function and no
\* factory is given, when the reward function given is not callable, when
\* the factory that has to supply the reward function is not callable or
\* returns a value that is not callable; given a reward function and a factory
\* it keeps the reward function and does not invoke the factory; an object that
\* was built holds a callable reward function.
C15_ConstructorValidation ==
  (op.name \in {"SMILESReward.__init__", "transforms.SMILESReward.__init__"})
    => LET reward_function == op.in.reward_function
           reward_function_creator == op.in.reward_function_creator
           failed == op.out.err = "ValueError" /\ rt = None
       IN /\ op.out.err \in {"none", "ValueError"}
          /\ (reward_function = None /\ reward_function_creator = None) => failed
          /\ (reward_function # None /\ ~IsCallable(reward_function)) => failed
          /\ (/\ reward_function = None
              /\ reward_function_creator # None
              /\ ~IsCallable(reward_function_creator)) => failed
          /\ (/\ reward_function = None
              /\ IsCallable(reward_function_creator)
              /\ ~IsCallable(CallCreator(reward_function_creator))) => failed
          /\ (/\ reward_function # None
              /\ reward_function_creator # None
              /\ op.out.err = "none")
               => (rt.reward_function = reward_function /\ op.out.created = 0)
          /\ op.out.err = "none" => (rt = op.out.val /\ IsCallable(rt.reward_function))

(***************************************************************************)
(* Properties of the row filters                                           *)
(***************************************************************************)
\* the rows whose key value no earlier row has, in their order
FirstOccurrences(tensordict, key) ==
  LET first(i) == \A j \in 1..(i - 1) : tensordict[j][key] # tensordict[i][key]
      kept == SelectSeq([i \in 1..Len(tensordict) |-> i], first)
  IN [j \in 1..Len(kept) |-> tensordict[kept[j]]]

\* C16: remove_duplicated_keys returns, in their order, the rows that are the
\* first occurrence of their key value: no two rows of the result have the
\* same key value and every key value of the input is in the result.
C16_RemoveDuplicatedKeys ==
  op.name = "remove_duplicated_keys"
    => /\ op.out = FirstOccurrences(op.in.tensordict, op.in.key)
       /\ \A i, j \in 1..Len(op.out) : i # j => op.out[i][op.in.key] # op.out[j][op.in.key]
       /\ Range(TensorGet(op.out, op.in.key)) = Range(TensorGet(op.in.tensordict, op.in.key))

\* C17: remove_keys_in_reference returns, in their order, the rows of the
\* target whose key value is the key value of no row of the reference, rows
\* that repeat each other included; the target itself for an empty reference.
C17_RemoveKeysInReference ==
  op.name = "remove_keys_in_reference"
    => LET reference == TensorGet(op.in.reference_tensordict, op.in.key)
           absent(row) == row[op.in.key] \notin Range(reference)
       IN /\ op.out = SelectSeq(op.in.target_tensordict, absent)
          /\ op.in.reference_tensordict = <<>> => op.out = op.in.target_tensordict

\* C17 witness: of three target rows the one with the key value of the
\* reference is dropped and two that have the same key value are kept
C17_Witness ==
  /\ op.name = "remove_keys_in_reference"
  /\ op.in.reference_tensordict # <<>>
  /\ Len(op.in.target_tensordict) = 3
  /\ Len(op.out) = 2
  /\ op.out[1].SMILES = op.out[2].SMILES
  /\ op.out[1].reward # op.out[2].reward
  /\ op.in.target_tensordict[2] \notin Range(op.out)

(***************************************************************************)
(* Properties of the experience buffer                                     *)
(***************************************************************************)
\* the occupancy is at most the capacity and all entries are retained while
\* no more than the capacity were offered; no entry that was dropped has a
\* higher rank than an entry that is retained
TopRanked(self) ==
  LET retained == Range(self.entries)
      offered == Range(self.offered)
  IN /\ Len(self.entries) <= self.capacity
     /\ Len(self.entries) = IF Len(self.offered) < self.capacity
                            THEN Len(self.offered) ELSE self.capacity
     /\ Cardinality(retained) = Len(self.entries)
     /\ retained \subseteq offered
     /\ \A e \in retained, d \in offered \ retained : e.reward >= d.reward

\* C19: after every add the occupancy of the buffer is at most its capacity
\* and not below what it was, and the retained entries are the highest-ranked
\* of the entries offered so far (all of them up to the capacity).
C19_CapacityBound ==
  [][/\ TopRanked(buffer')
     /\ Len(buffer'.entries) >= Len(buffer.entries)]_vars

\* C19 witness: two entries more than the capacity were offered, with ranks
\* that differ, one of them replaced an entry and the last was dropped
C19_Witness ==
  /\ Len(buffer.offered) = buffer.capacity + 2
  /\ Len(buffer.entries) = buffer.capacity
  /\ \E e \in Range(buffer.entries) : e.t = buffer.capacity + 1
  /\ buffer.offered[buffer.capacity + 2] \notin Range(buffer.entries)
  /\ \E d \in Range(buffer.offered) : d.t <= buffer.capacity /\ d \notin Range(buffer.entries)

\* C20: one entry offered to a full buffer replaces an entry only if its rank
\* is greater than the lowest rank retained, and then it replaces the entry of
\* that rank that was inserted first; otherwise the retained entries stay as
\* they are.
C20_EvictionPolicy ==
  [][(Len(buffer'.offered) = Len(buffer.offered) + 1
        /\ Len(buffer.entries) = buffer.capacity)
       => LET retained == Range(buffer.entries)
              e == buffer'.offered[Len(buffer'.offered)]
              lowest == MinOf({r.reward : r \in retained})
              victim == CHOOSE v \in retained :
                          /\ v.reward = lowest
                          /\ \A w \in retained : w.reward = lowest => v.t <= w.t
          IN /\ e.reward = op'.in[1].reward
             /\ IF e.reward > lowest
                THEN Range(buffer'.entries) = (retained \ {victim}) \cup {e}
                ELSE buffer'.entries = buffer.entries]_vars

\* C20 witness: of two retained entries of the same, lowest rank the one
\* inserted first was replaced by an entry of a higher rank
C20_Witness ==
  /\ Len(op.in) = 1
  /\ Len(buffer.entries) = buffer.capacity
  /\ \E a, b \in Range(buffer.offered) :
       /\ a.reward = b.reward
       /\ a.t < b.t
       /\ a \notin Range(buffer.entries)
       /\ b \in Range(buffer.entries)
       /\ buffer.offered[Len(buffer.offered)] \in Range(buffer.entries)
       /\ buffer.offered[Len(buffer.offered)].reward > a.reward
       /\ buffer.offered[Len(buffer.offered)].t = a.t + buffer.capacity

(***************************************************************************)
(* Properties of the repetition filter                                     *)
(***************************************************************************)
\* C18: in a round of the repetition filter, a terminal trajectory whose text
\* is neither in the archive before the round nor the text of a terminal
\* trajectory of lower batch index keeps its reward and its text is inserted
\* into the archive; every other terminal trajectory gets the penalty; the
\* counter of repeats grows by the number of trajectories penalised.
C18_RepetitionDeterminism ==
  [][(op'.name \in {"penalise_repeated_smiles", "penalty_transform"})
       => LET data == op'.in
              idx == TerminalSteps(data)
              texts == TerminalTexts(data)
              novel(j) == /\ texts[j] \notin Range(archive)
                          /\ \A k \in 1..(j - 1) : texts[k] # texts[j]
              first == SelectSeq([j \in 1..Len(idx) |-> j], novel)
          IN /\ \A j \in 1..Len(idx) :
                  td'.next[rt.out_key][idx[j]]
                    = IF novel(j) THEN data.next[rt.in_key][idx[j]] ELSE rt.penalty
             /\ archive' = archive \o [n \in 1..Len(first) |-> texts[first[n]]]
             /\ repeated_smiles' = repeated_smiles + (Len(idx) - Len(first))]_vars

\* C18 witness: a batch held the text C twice, encoded in two ways; the first
\* kept its reward and the second got the penalty, after a round that had put
\* another text into the archive
C18_Witness ==
  /\ op.name \in {"penalise_repeated_smiles", "penalty_transform"}
  /\ archive = <<"ClC", "C">>
  /\ repeated_smiles = 1
  /\ op.in.next["terminated"][1] /\ op.in.next["terminated"][2]
  /\ op.in.next["SMILES"][1] = <<3, 0, 2>>
  /\ op.in.next["SMILES"][2] = <<0, 2, -1>>
  /\ td.next[rt.out_key][1] = 1
  /\ td.next[rt.out_key][2] = rt.penalty

(***************************************************************************)
(* Failure paths of the reward transform                                   *)
(***************************************************************************)
\* C25: when the third call of the reward function raises RuntimeError and
\* the transform of examples/ppo/utils.py raises it, every field of the batch,
\* the reward of every step included, is as it was before the call.
C25_FailureLeavesBatch ==
  [][(ret'.called /\ ~ret.called /\ rt.class = "utils"
        /\ calls'.raised = <<"RuntimeError", "RuntimeError", "RuntimeError">>)
       => (ret'.err = "RuntimeError" /\ td' = td)]_vars

\* C25 witness: three attempts failed on a batch scaled by 2 with a terminal
\* step that holds reward 1, which a write of the scaled reward would change
C25_Witness ==
  /\ ret.called
  /\ rt.class = "utils"
  /\ ret.err = "RuntimeError"
  /\ ret.attempts = 3
  /\ rt.reward_scale = 2
  /\ \E i \in 1..MaxSteps : td.next["done"][i] /\ td.next[rt.out_keys[1]][i] = 1

\* C26: when the sequence of a terminal step does not decode, the transform of
\* examples/ppo/utils.py ends with the KeyError of decode, the reward function
\* is not called, not even once, and every field of the batch is as it was.
C26_DecodeFailureFatal ==
  [][(ret'.called /\ ~ret.called /\ rt.class = "utils" /\ TerminalSteps(td) # <<>>
        /\ ~DecodesAll(td))
       => /\ ret'.err = "KeyError"
          /\ ret'.attempts = 0
          /\ calls'.reward_function = <<>>
          /\ calls'.raised = <<>>
          /\ td' = td]_vars

\* C26 witness: the first terminal step decoded, the second held an index
\* that is not in the vocabulary, and the transform raised KeyError
C26_Witness ==
  /\ ret.called
  /\ rt.class = "utils"
  /\ ret.err = "KeyError"
  /\ Len(calls.decode) = 2
  /\ calls.decode[2] = <<0, 7, 2>>
  /\ decode(voc, calls.decode[1], {-1}).err = "none"
  /\ calls.reward_function = <<>>

(***************************************************************************)
(* Properties of the episode tensordict                                    *)
(***************************************************************************)
\* the last step of a row whose next observation is a token, not padding
LastRealStep(row) ==
  CHOOSE i \in 1..Len(row.next.observation) :
    /\ row.next.observation[i] # -1
    /\ \A j \in (i + 1)..Len(row.next.observation) : row.next.observation[j] = -1

\* C22: in every row of the tensordict smiles_to_tensordict builds, the done
\* and terminated flags of "next" are equal and set at one step only, the last
\* step whose token is not padding, and the reward is 0 at every other step.
C22_TerminalAtLastRealStep ==
  op.name = "smiles_to_tensordict"
    => \A b \in 1..Len(op.out) :
         LET row == op.out[b]
             steps == 1..Len(row.next.done)
         IN /\ row.next.done = row.next.terminated
            /\ Cardinality({i \in steps : row.next.done[i]}) = 1
            /\ \A i \in steps : row.next.done[i] <=> i = LastRealStep(row)
            /\ \A i \in steps : row.next.reward[i] # 0 => i = LastRealStep(row)

(***************************************************************************)
(* Properties of sequence sampling                                         *)
(***************************************************************************)
\* what holds of the locals of RNN.forward after every iteration
SamplingShape(self) ==
  LET batch == DOMAIN self.finished
      columns == 1..self.max_length
  IN /\ self.step <= self.max_length
     /\ \A b \in batch :
          /\ self.finished[b] <=> \E t \in 1..self.step : self.sampled[t][b] = self.end
          /\ self.finished[b] <=> \E t \in 1..self.step : self.sequences[b][t] = self.end
          /\ \A t \in columns :
               self.sequences[b][t] = self.end
                 => /\ self.sampled[t][b] = self.end
                    /\ \A u \in columns : u > t => self.sequences[b][u] = 0
          /\ \A t \in columns : t > self.step => self.sequences[b][t] = 0
     /\ self.pc = "done" <=> (AllFinished(self.finished) \/ self.step = self.max_length)

\* C28: in RNN.forward a finished sequence stays finished and is not written
\* again, so its end token is the last token written to it and every later
\* position keeps the initial 0; a sequence is finished exactly when it has
\* sampled the end token; the loop goes on exactly while some sequence is
\* unfinished and fewer than max_length steps have run.
C28_FinishedMonotone ==
  [][(rnn.pc = "loop" /\ rnn' # rnn)
       => /\ SamplingShape(rnn')
          /\ rnn'.step = rnn.step + 1
          /\ \A b \in DOMAIN rnn.finished :
               rnn.finished[b] => /\ rnn'.finished[b]
                                  /\ rnn'.sequences[b] = rnn.sequences[b]]_vars

\* a call that returned after three steps, in which one sequence sampled the
\* end token at the first step and another token at the second
C28_Witness ==
  /\ rnn.pc = "done"
  /\ rnn.step = 3
  /\ \E b \in DOMAIN rnn.finished :
       /\ rnn.sampled[1][b] = rnn.end
       /\ rnn.sampled[2][b] # rnn.end
       /\ rnn.sequences[b] = <<rnn.end, 0, 0>>
  /\ \E b \in DOMAIN rnn.finished : ~rnn.finished[b]

\* the number of tokens written into sequence b
WrittenLength(self, b) ==
  IF \E t \in 1..self.step : self.sequences[b][t] = self.end
  THEN CHOOSE t \in 1..self.step : self.sequences[b][t] = self.end /\ \A u \in 1..(t - 1) : self.sequences[b][u] # self.end
  ELSE self.step

\* C29: the log_probs RNN.forward returns for a sequence is the sum of the
\* log-probabilities of the tokens written into it, up to and including its end
\* token, and of no token sampled after the sequence finished.
C29_LogLikelihood ==
  rnn.pc = "done"
    => \A b \in DOMAIN rnn.finished :
         rnn.log_probs[b] = SumSeq([t \in 1..WrittenLength(rnn, b) |-> rnn.logps[t][b]])

(***************************************************************************)
(* Properties of the IMPALA training loop                                  *)
(***************************************************************************)
\* the collector's batches held in the accumulator
Accumulated(self) == {self.accumulator[i].id : i \in 1..Len(self.accumulator)}

\* C27: in the IMPALA loop every batch the collector yields is kept in the
\* accumulator or is part of the batch stacked at that moment, the accumulator
\* is emptied only of batches that were stacked, it never holds more than
\* batch_size batches, and it is empty after each training update.
C27_NoBatchLost ==
  [][(loop.pc = "collect" \/ loop.pc = "add_experience")
       => /\ Len(loop'.accumulator) <= loop'.batch_size
          /\ loop'.yielded # loop.yielded
               => \/ loop'.yielded \in Accumulated(loop')
                  \/ loop'.pc = "rew_transform" /\ loop'.yielded \in loop'.stacked
          /\ (loop.pc = "add_experience" /\ loop' # loop)
               => /\ loop'.accumulator = <<>>
                  /\ Accumulated(loop) = loop.stacked]_vars

\* the scores of the terminal rows of a "next" record
Scores(transform, next) ==
  LET rows == TerminatedRows(next)
  IN apply_reward_function(transform.reward_function,
                           decode_all(transform.vocabulary, TensorGet(rows, "SMILES"), 1, <<>>).val)

\* C30: after rew_transform has run on the stacked batch, the reward of every
\* terminal row is the reward the environment gave it, 0, plus the score of its
\* sequence, once.
C30_ScoredOnce ==
  [][(loop.pc = "rew_transform" /\ loop' # loop)
       => \A i \in 1..Len(TerminatedRows(loop'.data)) :
            TerminatedRows(loop'.data)[i].reward = 0 + Scores(rt, loop'.data)[i]]_vars

\* the entries a call of add_experience offered to the buffer
Offered(before, after) == SubSeq(after.offered, Len(before.offered) + 1, Len(after.offered))

\* C24: every entry offered to the experience buffer holds, as its reward, the
\* reward of its row before the repetition penalty and, as its shaped reward,
\* the reward after it.
C24_RawAndShaped ==
  [][(loop.pc = "add_experience" /\ loop' # loop /\ buffer.class = "Experience")
       => /\ Len(Offered(buffer, buffer')) = Len(loop.replay_data)
          /\ \A i \in 1..Len(loop.replay_data) :
               /\ Offered(buffer, buffer')[i].reward = loop.raw[i].reward
               /\ Offered(buffer, buffer')[i].shaped_reward = loop.replay_data[i].reward]_vars

\* the calls of a round in the order of the script
RoundOrder(self) ==
  <<"rew_transform">>
    \o (IF self.penalty_transform.class = "None" THEN <<>> ELSE <<"penalty_transform">>)
    \o <<"replay_data">>
    \o [j \in 1..self.sgd_updates |-> "sgd"]
    \o <<"add_experience">>

\* a sampling pass is an SGD pass
Pass(event) == IF event = "sample_replay_batch" THEN "sgd" ELSE event

\* C23: in a round of the IMPALA loop the reward transform runs first, then the
\* repetition penalty, then the capture of the terminal rows, then the SGD
\* updates, then the insertion into the buffer; the buffer changes only in that
\* last step, after sgd_updates updates, so that the updates of a round sample
\* the buffer the round started with; the collector's next batch is taken and
\* the archive is changed only by one step at a time on the one stacked batch.
C23_RoundOrder ==
  [][loop.pc # "idle"
       => /\ [i \in 1..Len(loop'.trace) |-> Pass(loop'.trace[i])]
               = SubSeq(RoundOrder(loop'), 1, Len(loop'.trace))
          /\ buffer' # buffer
               => /\ loop.pc = "add_experience"
                  /\ loop.j = loop.sgd_updates
                  /\ Len(loop.sampled) = loop.sgd_updates
          /\ <<archive', repeated_smiles'>> # <<archive, repeated_smiles>>
               => loop.pc = "penalty_transform" /\ loop.trace = <<"rew_transform">>
          /\ loop'.yielded # loop.yielded => loop.pc = "collect" /\ loop.replay_data = <<>>
          /\ loop'.updates # loop.updates => loop.pc = "collect" /\ loop'.pc = "rew_transform"]_vars

\* a round with the penalty switched on whose two updates sampled the buffer,
\* at the moment its rows are put into the buffer
C23_Witness ==
  /\ loop.pc = "add_experience"
  /\ loop.trace = <<"rew_transform", "penalty_transform", "replay_data", "sample_replay_batch", "sample_replay_batch">>
  /\ Len(loop.replay_data) > 0
  /\ buffer.class = "Experience"

\* C21: an SGD update of the IMPALA loop samples the experience buffer exactly
\* when the buffer is there and holds more than 20 entries; sampling leaves the
\* buffer as it is.
C21_ReplayGating ==
  [][(loop.pc = "sgd" /\ loop' # loop)
       => /\ Len(loop'.sampled) = Len(loop.sampled) + 1
          /\ loop'.sampled[Len(loop'.sampled)] > 0
               <=> (buffer.class = "Experience" /\ Len(buffer.entries) > 20)
          /\ buffer' = buffer]_vars

\* the first update that sampled the buffer: it holds 21 entries; the update
\* of the round before held 20 and did not sample
C21_Witness ==
  /\ loop.pc \in {"sgd", "add_experience"}
  /\ buffer.class = "Experience"
  /\ Len(buffer.entries) = 21
  /\ loop.sampled # <<>>
  /\ loop.sampled[1] = 1

====
